---- MODULE Spec2Model ----
(***************************************************************************)
(* The Product Hunt crawl controller (core/scrape_ph.py), its Progress     *)
(* Store / Record Repository (database.py) and the page protocol of the    *)
(* Catalog Client (scrapers/producthunt.py).                               *)
(*                                                                         *)
(* A cursor is the number of upstream entries that precede it; the null    *)
(* cursor is 0 (get_products_by_date sends no "after" for a falsy cursor). *)
(* A limit of 0 stands for limit=None: the controller tests `if limit`.    *)
(***************************************************************************)
EXTENDS Integers, Sequences, FiniteSets, TLC

\* ---------------------------------------------------------------- bounds
MaxPosts == 3        \* posts in the catalog, all dates together
ServerPageCap == 2   \* the largest page the catalog serves
MaxLimit == 2        \* the largest limit an invocation is given
MaxRequests == 5     \* requests one directly called scraper object is followed for
MaxErrors == 2       \* error items in one GraphQL errors response
LongRun == 205       \* single-entry requests a long-lived scraper object has made
TicksPerSecond == 2  \* resolution of the clock
MaxElapsed == 4      \* ticks the clock is followed for
MaxLatency == 1      \* ticks a request takes until it returns or raises
LongPage == 4        \* entries per page of the catalog of more than 1000 pages

\* ------------------------------------------------------- program constants
DefaultBatchSize == 50
SafeComplexityLimit == 450000
ComplexityPerProduct == 4000
OptimizeEvery == 5
MinRequestsToOptimize == 3
MaxOptimalBatch == 100
MinRequestInterval == 1
MaxPages == 1000
AutoScrapeLimit == 3

Dates == {"d1", "d2"}
Names == {"A", "B"}
Controllers == {1, 2}
Sequential == {1}

NoRow == [created |-> FALSE]
NoCursor == 0
NoLimit == 0
None == -1
NoDate == "none"
NoCall == [op |-> "none"]

VARIABLES
    upstream,       \* the catalog's entries (names) per date, in ranking order
    progress,       \* scrape_progress table: date -> NoRow or a row
    companies,      \* companies table: set of rows
    products,       \* products table: set of rows
    run,            \* per controller instance: the locals of scrape_producthunt_only
    failed,         \* per date: some fetch of that date ended in the except/errors branch
    interrupted,    \* per date: cursor of the page an aborted run had fetched and
                    \* not checkpointed, until the date is fetched again; else -1
    last,           \* the invocation that returned last, while the next one
                    \* repeats its date and limit: date, limit, ids, exhausted
    scraper,        \* a ProductHuntScraper object that is called directly
    call,           \* the last direct call of a component: arguments and result
    clock           \* time.time(), in ticks, where the object's pacing is followed

vars == <<upstream, progress, companies, products, run, failed,
          interrupted, last, scraper, call, clock>>

\* The variables of the crawl controller and its stores.
crawlVars == <<upstream, progress, companies, products, run, failed,
               interrupted, last>>

\* ---------------------------------------------------------------- helpers
Min(a, b) == IF a <= b THEN a ELSE b

Max(a, b) == IF a >= b THEN a ELSE b

Range(s) == {s[i] : i \in 1..Len(s)}

SeqsUpTo(names, n) == UNION {[1..k -> names] : k \in 0..n}

\* Names are interchangeable: of the catalogs that differ only by renaming,
\* the one that introduces its names in the order A, B, C is taken.
Rank(n) == CASE n = "A" -> 1 [] n = "B" -> 2 [] OTHER -> 3

FirstOccurrenceOrder(s) ==
    \A i \in 1..Len(s) : \A n \in {"A", "B", "C"} :
        Rank(n) < Rank(s[i]) => \E j \in 1..(i - 1) : s[j] = n

\* ------------------------------------------------------------ the catalog
\* The GraphQL query posts(first: $first, after: $after): the entries that
\* follow the cursor, at most `first` of them and at most what the server
\* serves in one page, with pageInfo {endCursor, hasNextPage}.  A catalog of
\* more than 1000 entries is served LongPage entries at a time.
ServedPerPage(d) ==
    IF Len(upstream[d]) > MaxPages THEN LongPage ELSE ServerPageCap

UpstreamPage(d, first, after) ==
    LET total == Len(upstream[d])
        k == Min(Min(first, ServedPerPage(d)), total - after)
    IN  [edges |-> SubSeq(upstream[d], after + 1, after + k),
         endCursor |-> IF k > 0 THEN after + k ELSE NoCursor,
         hasNextPage |-> after + k < total]

\* ------------------------------------------------ scrapers/producthunt.py
\* ProductHuntScraper.__init__: the attributes the batch tuning and the pacing
\* of requests read and write.
NewScraper ==
    [max_batch_size |-> Min(DefaultBatchSize,
                            SafeComplexityLimit \div ComplexityPerProduct),
     complexity_per_product |-> ComplexityPerProduct,
     total_complexity_used |-> 0,
     request_count |-> 0,
     last_request_time |-> 0]

\* min_request_interval in ticks.
Interval == MinRequestInterval * TicksPerSecond

\* time.time() when the object is built: the epoch lies further back than the
\* interval, so the first request of an object (last_request_time 0) never
\* sleeps.
StartOfClock == Interval

\* Lines 165-170: the time the request goes out at, after the sleep if any.
SendTime(self, now) ==
    LET time_since_last_request == now - self.last_request_time
    IN  IF time_since_last_request < Interval
        THEN now + (Interval - time_since_last_request)
        ELSE now

\* Lines 173-179: session.post returns and line 179 stamps the time, or it
\* raises and the except clause is entered with the stamp as it was.
Stamped(self, kind, sent, returned) ==
    IF kind = "transport" THEN self ELSE [self EXCEPT !.last_request_time = returned]

\* BatchSize that keeps a given limit within the object's batch size.
BatchSizeCapped(self, limit) ==
    IF limit = None THEN self.max_batch_size ELSE Min(limit, self.max_batch_size)

\* Lines 148-152: the `first` variable of the request.
BatchSize(self, limit) == IF limit = None THEN self.max_batch_size ELSE limit

\* Lines 193-194: one reduction of the batch size.
HalveOnce(self) ==
    IF self.max_batch_size > 1
    THEN [self EXCEPT !.max_batch_size = Max(1, self.max_batch_size \div 2)]
    ELSE self

\* Line 189: the lower-cased message holds "complexity", or "limit", or neither.
IsCostLimit(message) == message \in {"complexity", "limit"}

\* Lines 188-194: the loop over the response's error items.
RECURSIVE ReduceForErrors(_, _)
ReduceForErrors(self, errors) ==
    IF errors = <<>>
    THEN self
    ELSE ReduceForErrors(IF IsCostLimit(Head(errors)) THEN HalveOnce(self) ELSE self,
                         Tail(errors))

\* _optimize_batch_size without the upper clamp of line 86.
OptimizeBatchSizeUnclamped(self) ==
    IF self.request_count < MinRequestsToOptimize
    THEN [self |-> self, raised |-> FALSE]
    ELSE LET per == self.total_complexity_used
                        \div (self.request_count * Max(1, self.max_batch_size))
             est == [self EXCEPT !.complexity_per_product = per]
         IN  IF per = 0
             THEN [self |-> est, raised |-> TRUE]
             ELSE [self |-> [est EXCEPT !.max_batch_size =
                                Max(1, SafeComplexityLimit \div per)],
                   raised |-> FALSE]

\* _optimize_batch_size.  total / count / max(1, batch) is a quotient of
\* integers below 2^53 whose distance to the next integer, when it is not one,
\* exceeds the rounding error of the two float divisions, so int() of it is
\* the integer quotient.  A zero estimate makes line 83 raise ZeroDivisionError
\* after line 80 has stored it.
OptimizeBatchSize(self) ==
    IF self.request_count < MinRequestsToOptimize
    THEN [self |-> self, raised |-> FALSE]
    ELSE LET per == self.total_complexity_used
                        \div (self.request_count * Max(1, self.max_batch_size))
             est == [self EXCEPT !.complexity_per_product = per]
         IN  IF per = 0
             THEN [self |-> est, raised |-> TRUE]
             ELSE [self |-> [est EXCEPT !.max_batch_size =
                                Max(1, Min(MaxOptimalBatch,
                                           SafeComplexityLimit \div per))],
                   raised |-> FALSE]

\* _track_complexity_usage charging every entry the initial estimate of
\* line 28 whatever the estimate in force.
TrackComplexityUsageInitialEstimate(self, products_count) ==
    LET counted == [self EXCEPT
                      !.total_complexity_used =
                          @ + products_count * ComplexityPerProduct,
                      !.request_count = @ + 1]
    IN  IF counted.request_count % OptimizeEvery = 0
        THEN OptimizeBatchSize(counted)
        ELSE [self |-> counted, raised |-> FALSE]

\* _track_complexity_usage without the test of line 67: every request
\* optimizes.
TrackComplexityUsageEveryRequest(self, products_count) ==
    OptimizeBatchSize([self EXCEPT
                         !.total_complexity_used =
                             @ + products_count * self.complexity_per_product,
                         !.request_count = @ + 1])

\* _track_complexity_usage(products_count).
TrackComplexityUsage(self, products_count) ==
    LET counted == [self EXCEPT
                      !.total_complexity_used =
                          @ + products_count * self.complexity_per_product,
                      !.request_count = @ + 1]
    IN  IF counted.request_count % OptimizeEvery = 0
        THEN OptimizeBatchSize(counted)
        ELSE [self |-> counted, raised |-> FALSE]

\* What the upstream does with one request.  kind is
\*   "transport"          session.post raises (no connection, timeout, retries spent)
\*   "http"               raise_for_status raises
\*   "not_json"           response.json() raises
\*   "errors"             the body has "errors": a list of messages
\*   "null_data"          the body has "data": null
\*   "edge_without_node"  an edge lacks "node"
\*   "posts"              any other body: edges ([] when data, posts or edges is
\*                        missing) and pageInfo, which may be missing
Raising == {"transport", "http", "not_json", "null_data", "edge_without_node"}

Response(kind, errors, edges, pageInfo, endCursor, hasNextPage) ==
    [kind |-> kind, errors |-> errors, edges |-> edges, pageInfo |-> pageInfo,
     endCursor |-> endCursor, hasNextPage |-> hasNextPage]

\* get_products_by_date, the errors / except branches.
FailedPage == [products |-> <<>>, endCursor |-> NoCursor, hasNextPage |-> FALSE]

Returned(page, self, raised) ==
    [products |-> page.products, endCursor |-> page.endCursor,
     hasNextPage |-> page.hasNextPage, self |-> self, raised |-> raised]

\* Lines 163-243, the body of the try: the page it returns, the object it
\* leaves, and whether an exception left it instead.
TryBody(self, resp) ==
    IF resp.kind \in Raising
    THEN Returned(FailedPage, self, TRUE)
    ELSE IF resp.kind = "errors"
    THEN Returned(FailedPage, ReduceForErrors(self, resp.errors), FALSE)
    ELSE LET end_cursor == IF resp.pageInfo THEN resp.endCursor ELSE NoCursor
             has_next_page == IF resp.pageInfo THEN resp.hasNextPage ELSE FALSE
         IN  IF resp.edges = <<>>
             THEN Returned([products |-> <<>>, endCursor |-> end_cursor,
                            hasNextPage |-> FALSE], self, FALSE)
             ELSE LET tracked == TrackComplexityUsage(self, Len(resp.edges))
                  IN  Returned([products |-> resp.edges, endCursor |-> end_cursor,
                                hasNextPage |-> has_next_page],
                               tracked.self, tracked.raised)

\* The try with an except clause for the exceptions of the request only.
HandleResponseRequestErrorsOnly(self, resp) ==
    LET body == TryBody(self, resp)
    IN  IF body.raised /\ resp.kind \in {"transport", "http"}
        THEN Returned(FailedPage, body.self, FALSE)
        ELSE body

\* Lines 163-247: the try and its `except Exception`.
HandleResponse(self, resp) ==
    LET body == TryBody(self, resp)
    IN  IF body.raised THEN Returned(FailedPage, body.self, FALSE) ELSE body

\* get_products_by_date against the catalog of this model: the result for
\* the one page the upstream serves.
GetProductsByDate(self, d, limit, after) ==
    CHOOSE result \in
        {HandleResponse(self, Response("posts", <<>>, page.edges, TRUE,
                                       page.endCursor, page.hasNextPage)) :
            page \in {UpstreamPage(d, BatchSize(self, limit), after)}} : TRUE

\* ------------------------------------------------------------- database.py
\* get_or_create_scrape_progress that writes a fresh row at every call.
GetOrCreateScrapeProgressResets(d) ==
    [progress EXCEPT ![d] = [created |-> TRUE, last_cursor |-> NoCursor,
                             has_next_page |-> TRUE]]

\* get_or_create_scrape_progress (lines 104-111); last_cursor is nullable and
\* has_next_page defaults to True (models.py lines 64-65).
GetOrCreateScrapeProgress(d) ==
    IF progress[d] = NoRow
    THEN [progress EXCEPT ![d] = [created |-> TRUE, last_cursor |-> NoCursor,
                                  has_next_page |-> TRUE]]
    ELSE progress

\* Lines 120-121: update_scrape_progress finds no row and raises.
ScrapeProgressNotFound(d) == progress[d] = NoRow

\* update_scrape_progress that creates the row it does not find.
UpdateScrapeProgressUpserts(d, last_cursor, has_next_page) ==
    [progress EXCEPT ![d] = [created |-> TRUE, last_cursor |-> last_cursor,
                             has_next_page |-> has_next_page]]

\* update_scrape_progress (lines 113-121): the table it leaves.
UpdateScrapeProgress(d, last_cursor, has_next_page) ==
    IF ScrapeProgressNotFound(d)
    THEN progress
    ELSE [progress EXCEPT ![d] = [created |-> TRUE, last_cursor |-> last_cursor,
                                  has_next_page |-> has_next_page]]

ProductsNamed(n) == {r \in products : r.product_name = n}

\* query(Product).filter(product_name == n).first(): the row of lowest id.
FirstProductNamed(n) ==
    CHOOSE r \in ProductsNamed(n) : \A q \in ProductsNamed(n) : r.id <= q.id

CompaniesNamed(n) == {c \in companies : c.company_name = n}

NextId(table) == Cardinality(table) + 1

\* get_or_create_company that adds a row at every call.
GetOrCreateCompanyRowsAlwaysAdds(n) ==
    companies \cup {[id |-> NextId(companies), company_name |-> n, is_signal |-> FALSE]}

\* get_or_create_company(n), database.py lines 53-65: the table it leaves
\* (is_signal defaults to False, models.py line 20) ...
GetOrCreateCompanyRows(n) ==
    IF CompaniesNamed(n) # {}
    THEN companies
    ELSE companies \cup
            {[id |-> NextId(companies), company_name |-> n, is_signal |-> FALSE]}

\* ... and the id it returns.
GetOrCreateCompanyId(n) ==
    IF CompaniesNamed(n) # {}
    THEN (CHOOSE c \in CompaniesNamed(n) : TRUE).id
    ELSE NextId(companies)

\* No table holds a row yet.
StoresEmpty ==
    /\ products = {}
    /\ companies = {}
    /\ \A d \in Dates : progress[d] = NoRow

\* ---------------------------------------------------- scrape_producthunt_only
\* The locals of one invocation; line 31 builds its own ProductHuntScraper.
IdleRun == [pc |-> "idle", date_str |-> NoDate, limit |-> NoLimit,
            current_cursor |-> NoCursor, page |-> <<>>,
            new_end_cursor |-> NoCursor, new_has_next_page |-> FALSE,
            idx |-> 1, product_ids |-> <<>>, total_fetched |-> 0,
            company_id |-> 0, nfetch |-> 0, from_empty |-> FALSE,
            ph_scraper |-> NewScraper,
            streamlined |-> FALSE, all_products |-> <<>>, page_num |-> 1]

NoLast == [date |-> NoDate, limit |-> NoLimit, ids |-> <<>>, exhausted |-> FALSE,
           cursor |-> NoCursor, records |-> 0]

\* Start without the has_next_page test of line 39.
StartIgnoresExhausted(p, d, lim) ==
    /\ run[p].pc = "idle"
    /\ progress' = GetOrCreateScrapeProgress(d)
    /\ run' = [run EXCEPT ![p] =
                [IdleRun EXCEPT !.pc = "fetch", !.date_str = d, !.limit = lim,
                                !.current_cursor = progress'[d].last_cursor,
                                !.from_empty = StoresEmpty]]
    /\ last' = IF last.date = d /\ last.limit = lim THEN last ELSE NoLast
    /\ UNCHANGED <<clock, scraper, call, upstream, companies, products, failed, interrupted>>

\* Start that reads the checkpoint without creating a missing one.
StartWithoutGetOrCreate(p, d, lim) ==
    /\ run[p].pc = "idle"
    /\ progress' = progress
    /\ LET row == IF progress[d] = NoRow
                  THEN [last_cursor |-> NoCursor, has_next_page |-> TRUE]
                  ELSE progress[d]
       IN  run' = [run EXCEPT ![p] =
                [IdleRun EXCEPT !.pc = IF row.has_next_page THEN "fetch" ELSE "done",
                                !.date_str = d, !.limit = lim,
                                !.current_cursor = row.last_cursor,
                                !.from_empty = StoresEmpty]]
    /\ last' = IF last.date = d /\ last.limit = lim THEN last ELSE NoLast
    /\ UNCHANGED <<clock, scraper, call, upstream, companies, products, failed, interrupted>>

\* Lines 31-45: get_or_create_scrape_progress, the has_next_page test.
Start(p, d, lim) ==
    /\ run[p].pc = "idle"
    /\ progress' = GetOrCreateScrapeProgress(d)
    /\ LET row == progress'[d]
       IN  run' = [run EXCEPT ![p] =
                [IdleRun EXCEPT !.pc = IF row.has_next_page THEN "fetch" ELSE "done",
                                !.date_str = d, !.limit = lim,
                                !.current_cursor = row.last_cursor,
                                !.from_empty = StoresEmpty]]
    /\ last' = IF last.date = d /\ last.limit = lim THEN last ELSE NoLast
    /\ UNCHANGED <<clock, scraper, call, upstream, companies, products, failed, interrupted>>

\* The locals after a call of update_scrape_progress for date d: `next`, or
\* the invocation ended by the exception of database.py line 121.
Persisted(p, d, next) ==
    IF ScrapeProgressNotFound(d) THEN [run EXCEPT ![p].pc = "raised"] ELSE next

\* FetchWith persisting the page's cursor as soon as the page is fetched.
FetchWithEarlyCheckpoint(p, result, isFailure) ==
    LET r == run[p]
    IN  /\ r.pc = "fetch"
        /\ IF result.products = <<>>
           THEN /\ progress' = UpdateScrapeProgress(r.date_str, NoCursor, FALSE)
                /\ run' = [run EXCEPT ![p].pc = "done", ![p].page = <<>>,
                                      ![p].nfetch = r.nfetch + 1,
                                      ![p].ph_scraper = result.self]
           ELSE /\ progress' = UpdateScrapeProgress(r.date_str, result.endCursor,
                                                    result.hasNextPage)
                /\ run' = [run EXCEPT ![p].pc = "find", ![p].page = result.products,
                                      ![p].new_end_cursor = result.endCursor,
                                      ![p].new_has_next_page = result.hasNextPage,
                                      ![p].idx = 1, ![p].nfetch = r.nfetch + 1,
                                      ![p].ph_scraper = result.self]
        /\ failed' = IF isFailure THEN [failed EXCEPT ![r.date_str] = TRUE] ELSE failed
        /\ interrupted' = [interrupted EXCEPT ![r.date_str] = -1]
        /\ UNCHANGED <<clock, scraper, call, upstream, companies, products, last>>

\* FetchWith whose empty page keeps the cursor it was fetched with.
FetchWithKeepsCursor(p, result, isFailure) ==
    LET r == run[p]
    IN  /\ r.pc = "fetch"
        /\ IF result.products = <<>>
           THEN /\ progress' = UpdateScrapeProgress(r.date_str, r.current_cursor, FALSE)
                /\ run' = [run EXCEPT ![p].pc = "done", ![p].page = <<>>,
                                      ![p].nfetch = r.nfetch + 1,
                                      ![p].ph_scraper = result.self]
           ELSE /\ progress' = progress
                /\ run' = [run EXCEPT ![p].pc = "find", ![p].page = result.products,
                                      ![p].new_end_cursor = result.endCursor,
                                      ![p].new_has_next_page = result.hasNextPage,
                                      ![p].idx = 1, ![p].nfetch = r.nfetch + 1,
                                      ![p].ph_scraper = result.self]
        /\ failed' = IF isFailure THEN [failed EXCEPT ![r.date_str] = TRUE] ELSE failed
        /\ interrupted' = [interrupted EXCEPT ![r.date_str] = -1]
        /\ UNCHANGED <<clock, scraper, call, upstream, companies, products, last>>

\* Lines 47-67: fetch one page; an empty page marks the date exhausted.
FetchWith(p, result, isFailure) ==
    LET r == run[p]
    IN  /\ r.pc = "fetch"
        /\ IF result.products = <<>>
           THEN /\ progress' = UpdateScrapeProgress(r.date_str, NoCursor, FALSE)
                /\ run' = Persisted(p, r.date_str,
                              [run EXCEPT ![p].pc = "done", ![p].page = <<>>,
                                          ![p].nfetch = r.nfetch + 1,
                                          ![p].ph_scraper = result.self])
           ELSE /\ progress' = progress
                /\ run' = [run EXCEPT ![p].pc = "find", ![p].page = result.products,
                                      ![p].new_end_cursor = result.endCursor,
                                      ![p].new_has_next_page = result.hasNextPage,
                                      ![p].idx = 1, ![p].nfetch = r.nfetch + 1,
                                      ![p].ph_scraper = result.self]
        /\ failed' = IF isFailure THEN [failed EXCEPT ![r.date_str] = TRUE] ELSE failed
        /\ interrupted' = [interrupted EXCEPT ![r.date_str] = -1]
        /\ UNCHANGED <<clock, scraper, call, upstream, companies, products, last>>

\* Line 53: batch_limit = limit if limit else None.
BatchLimit(limit) == IF limit # NoLimit THEN limit ELSE None

Fetch(p) ==
    /\ run[p].pc = "fetch"
    /\ \E result \in {GetProductsByDate(run[p].ph_scraper, run[p].date_str,
                                         BatchLimit(run[p].limit),
                                         run[p].current_cursor)} :
           FetchWith(p, result, FALSE)

\* The request fails: no connection, or an HTTP error status.
FetchFails(p) ==
    \E kind \in {"transport", "http"} :
        \E result \in {HandleResponse(run[p].ph_scraper,
                                       Response(kind, <<>>, <<>>, FALSE, NoCursor, FALSE))} :
            FetchWith(p, result, TRUE)

\* The upstream answers the request with a cost-limit error.
FetchCostLimited(p) ==
    FetchWith(p, HandleResponse(run[p].ph_scraper,
                                Response("errors", <<"complexity">>, <<>>, FALSE,
                                         NoCursor, FALSE)),
              TRUE)

\* Advance that tests the limit after every entry and leaves the page early.
AdvanceStopsAtLimit(r) ==
    [r EXCEPT !.idx = r.idx + 1, !.company_id = 0,
              !.pc = IF r.idx + 1 <= Len(r.page)
                        /\ ~(r.limit # NoLimit /\ r.total_fetched + r.idx >= r.limit)
                     THEN "find" ELSE "update"]

\* After the last statement of the for-body: the next entry, or lines 104-107
\* (in the streamlined variant, whose for-body is the same code at lines
\* 160-188, the return of line 198).  company_id is assigned anew before its
\* next use.
Advance(r) ==
    [r EXCEPT !.idx = r.idx + 1, !.company_id = 0,
              !.pc = IF r.idx + 1 <= Len(r.page) THEN "find"
                     ELSE IF r.streamlined THEN "streamlined_done" ELSE "update"]

\* FindExisting whose hit continues without appending the stored id.
FindExistingNoAppend(p) ==
    LET r == run[p]
        n == r.page[r.idx]
    IN  /\ r.pc = "find"
        /\ IF ProductsNamed(n) # {}
           THEN run' = [run EXCEPT ![p] = Advance(r)]
           ELSE run' = [run EXCEPT ![p].pc = "company"]
        /\ UNCHANGED <<clock, scraper, call, upstream, progress, companies, products, failed,
                       interrupted, last>>

\* FindExisting whose name lookup never hits.
FindExistingNever(p) ==
    /\ run[p].pc = "find"
    /\ run' = [run EXCEPT ![p].pc = "company"]
    /\ UNCHANGED <<clock, scraper, call, upstream, progress, companies, products, failed, interrupted, last>>

\* FindExisting with the signal test ahead of the name lookup: an entry whose
\* company is flagged is dropped even when its name has a row.
FindExistingAfterSignal(p) ==
    LET r == run[p]
        n == r.page[r.idx]
    IN  /\ r.pc = "find"
        /\ IF \E c \in CompaniesNamed(n) : c.is_signal
           THEN run' = [run EXCEPT ![p] = Advance(r)]
           ELSE IF ProductsNamed(n) # {}
           THEN run' = [run EXCEPT ![p] =
                    Advance([r EXCEPT !.product_ids =
                                 Append(r.product_ids, FirstProductNamed(n).id)])]
           ELSE run' = [run EXCEPT ![p].pc = "company"]
        /\ UNCHANGED <<clock, scraper, call, upstream, progress, companies, products, failed,
                       interrupted, last>>

\* Lines 75-80: the name lookup; a hit appends the stored id and continues.
FindExisting(p) ==
    LET r == run[p]
        n == r.page[r.idx]
    IN  /\ r.pc = "find"
        /\ IF ProductsNamed(n) # {}
           THEN run' = [run EXCEPT ![p] =
                    Advance([r EXCEPT !.product_ids =
                                 Append(r.product_ids, FirstProductNamed(n).id)])]
           ELSE run' = [run EXCEPT ![p].pc = "company"]
        /\ UNCHANGED <<clock, scraper, call, upstream, progress, companies, products, failed,
                       interrupted, last>>

\* Lines 82-83 and database.py get_or_create_company.
GetOrCreateCompany(p) ==
    LET r == run[p]
        n == r.page[r.idx]
    IN  /\ r.pc = "company"
        /\ companies' = GetOrCreateCompanyRows(n)
        /\ run' = [run EXCEPT ![p].pc = "signal",
                              ![p].company_id = GetOrCreateCompanyId(n)]
        /\ UNCHANGED <<clock, scraper, call, upstream, progress, products, failed, interrupted, last>>

\* CheckSignal that never drops an entry.
CheckSignalIgnored(p) ==
    /\ run[p].pc = "signal"
    /\ run' = [run EXCEPT ![p].pc = "insert"]
    /\ UNCHANGED <<clock, scraper, call, upstream, progress, companies, products, failed, interrupted, last>>

\* Lines 85-89: a company flagged signal drops the entry.
CheckSignal(p) ==
    LET r == run[p]
        company == {c \in companies : c.id = r.company_id}
    IN  /\ r.pc = "signal"
        /\ IF \E c \in company : c.is_signal
           THEN run' = [run EXCEPT ![p] = Advance(r)]
           ELSE run' = [run EXCEPT ![p].pc = "insert"]
        /\ UNCHANGED <<clock, scraper, call, upstream, progress, companies, products, failed,
                       interrupted, last>>

\* InsertProduct that also puts the stored rows of the date back to status 0.
InsertProductResetsStatus(p) ==
    LET r == run[p]
        n == r.page[r.idx]
        product_id == NextId(products)
    IN  /\ r.pc = "insert"
        /\ products' =
              {IF row.launch_date = r.date_str THEN [row EXCEPT !.status = 0] ELSE row :
                 row \in products}
              \cup {[id |-> product_id, company_id |-> r.company_id, product_name |-> n,
                     launch_date |-> r.date_str, status |-> 0]}
        /\ run' = [run EXCEPT ![p] =
                Advance([r EXCEPT !.product_ids = Append(r.product_ids, product_id)])]
        /\ UNCHANGED <<clock, scraper, call, upstream, progress, companies, failed, interrupted, last>>

\* Lines 91-101 and database.py insert_product.
InsertProduct(p) ==
    LET r == run[p]
        n == r.page[r.idx]
        product_id == NextId(products)
    IN  /\ r.pc = "insert"
        /\ products' = products \cup
               {[id |-> product_id, company_id |-> r.company_id, product_name |-> n,
                 launch_date |-> r.date_str, status |-> 0]}
        /\ run' = [run EXCEPT ![p] =
                Advance([r EXCEPT !.product_ids = Append(r.product_ids, product_id)])]
        /\ UNCHANGED <<clock, scraper, call, upstream, progress, companies, failed, interrupted, last>>

\* UpdateProgress that ends the invocation after every page.
UpdateProgressOnePage(p) ==
    LET r == run[p]
        total == r.total_fetched + Len(r.page)
    IN  /\ r.pc = "update"
        /\ progress' = UpdateScrapeProgress(r.date_str, r.new_end_cursor,
                                            r.new_has_next_page)
        /\ run' = Persisted(p, r.date_str,
                      [run EXCEPT ![p].pc = "done", ![p].total_fetched = total])
        /\ UNCHANGED <<clock, scraper, call, upstream, companies, products, failed, interrupted, last>>

\* UpdateProgress that stores the cursor the page was fetched with.
UpdateProgressKeepsCursor(p) ==
    LET r == run[p]
        total == r.total_fetched + Len(r.page)
    IN  /\ r.pc = "update"
        /\ progress' = UpdateScrapeProgress(r.date_str, r.current_cursor,
                                            r.new_has_next_page)
        /\ run' = Persisted(p, r.date_str,
                      IF r.limit # NoLimit /\ total >= r.limit
                      THEN [run EXCEPT ![p].pc = "done", ![p].total_fetched = total]
                      ELSE IF ~r.new_has_next_page
                      THEN [run EXCEPT ![p].pc = "exhaust", ![p].total_fetched = total]
                      ELSE [run EXCEPT ![p].pc = "fetch", ![p].total_fetched = total,
                                       ![p].current_cursor = r.new_end_cursor])
        /\ UNCHANGED <<clock, scraper, call, upstream, companies, products, failed, interrupted, last>>

\* UpdateProgress that marks the date exhausted when the limit stops the run.
UpdateProgressLimitExhausts(p) ==
    LET r == run[p]
        total == r.total_fetched + Len(r.page)
    IN  /\ r.pc = "update"
        /\ IF (r.limit # NoLimit /\ total >= r.limit) \/ ~r.new_has_next_page
           THEN /\ progress' = UpdateScrapeProgress(r.date_str, NoCursor, FALSE)
                /\ run' = [run EXCEPT ![p].pc = "done", ![p].total_fetched = total]
           ELSE /\ progress' = UpdateScrapeProgress(r.date_str, r.new_end_cursor,
                                                    r.new_has_next_page)
                /\ run' = [run EXCEPT ![p].pc = "fetch", ![p].total_fetched = total,
                                      ![p].current_cursor = r.new_end_cursor]
        /\ UNCHANGED <<clock, scraper, call, upstream, companies, products, failed, interrupted, last>>

\* Lines 104-120: count the page, persist the checkpoint (line 107), then the
\* stop tests.
UpdateProgress(p) ==
    LET r == run[p]
        total == r.total_fetched + Len(r.page)
    IN  /\ r.pc = "update"
        /\ IF r.limit # NoLimit /\ total >= r.limit
           THEN /\ progress' = UpdateScrapeProgress(r.date_str, r.new_end_cursor,
                                                    r.new_has_next_page)
                /\ run' = Persisted(p, r.date_str,
                              [run EXCEPT ![p].pc = "done", ![p].total_fetched = total])
           ELSE IF ~r.new_has_next_page
           THEN /\ progress' = UpdateScrapeProgress(r.date_str, r.new_end_cursor,
                                                    r.new_has_next_page)
                /\ run' = Persisted(p, r.date_str,
                              [run EXCEPT ![p].pc = "exhaust", ![p].total_fetched = total])
           ELSE /\ progress' = UpdateScrapeProgress(r.date_str, r.new_end_cursor,
                                                    r.new_has_next_page)
                /\ run' = Persisted(p, r.date_str,
                              [run EXCEPT ![p].pc = "fetch", ![p].total_fetched = total,
                                          ![p].current_cursor = r.new_end_cursor])
        /\ UNCHANGED <<clock, scraper, call, upstream, companies, products, failed, interrupted, last>>

\* Lines 114-117: the page had no successor and the limit did not stop the
\* invocation: a second update_scrape_progress clears the cursor.
MarkExhausted(p) ==
    LET r == run[p]
    IN  /\ r.pc = "exhaust"
        /\ progress' = UpdateScrapeProgress(r.date_str, NoCursor, FALSE)
        /\ run' = Persisted(p, r.date_str, [run EXCEPT ![p].pc = "done"])
        /\ UNCHANGED <<clock, scraper, call, upstream, companies, products, failed, interrupted, last>>

\* Line 134 (and line 41): the invocation returns its id list.
Return(p) ==
    LET r == run[p]
    IN  /\ r.pc = "done"
        /\ run' = [run EXCEPT ![p] = IdleRun]
        /\ last' = [date |-> r.date_str, limit |-> r.limit, ids |-> r.product_ids,
                    exhausted |-> ~progress[r.date_str].has_next_page,
                    cursor |-> progress[r.date_str].last_cursor,
                    records |-> Cardinality(products)]
        /\ UNCHANGED <<clock, scraper, call, upstream, progress, companies, products, failed,
                       interrupted>>

MidPage == {"find", "company", "signal", "insert", "update"}

\* The process dies, or a company / record write raises and Database.__exit__
\* rolls back: every commit made so far stays, the invocation returns nothing.
Abort(p) ==
    LET r == run[p]
    IN  /\ run' = [run EXCEPT ![p] = IdleRun]
        /\ interrupted' = IF r.pc \in MidPage
                          THEN [interrupted EXCEPT ![r.date_str] = r.current_cursor]
                          ELSE interrupted
        /\ last' = NoLast
        /\ UNCHANGED <<clock, scraper, call, upstream, progress, companies, products, failed>>

Crash(p) ==
    /\ run[p].pc \in {"fetch", "exhaust", "done"} \cup MidPage
    /\ Abort(p)

PersistenceError(p) ==
    /\ run[p].pc \in {"company", "insert"}
    /\ Abort(p)

\* A writer outside the crawl path flags a company as signal.
FlagSignal(c) ==
    /\ c \in companies
    /\ ~c.is_signal
    /\ companies' = (companies \ {c}) \cup {[c EXCEPT !.is_signal = TRUE]}
    /\ UNCHANGED <<clock, scraper, call, upstream, progress, products, run, failed, interrupted, last>>

\* --------------------------------- scrape_producthunt_date_streamlined
\* scrape_ph.py lines 144-147: a scraper of its own and the call of
\* scrape_all_products_for_date, whose locals (producthunt.py lines 261-264)
\* are all_products = [], cursor = None, has_next_page = True, page_num = 1.
\* No statement of this variant touches scrape_progress.
StreamlinedStart(p, d, max_products) ==
    /\ run[p].pc = "idle"
    /\ run' = [run EXCEPT ![p] =
            [IdleRun EXCEPT !.pc = "scrape_all", !.date_str = d,
                            !.limit = max_products,
                            !.current_cursor = NoCursor,
                            !.new_has_next_page = TRUE,
                            !.all_products = <<>>, !.page_num = 1,
                            !.streamlined = TRUE,
                            !.from_empty = StoresEmpty]]
    /\ last' = IF last.date = d /\ last.limit = max_products THEN last ELSE NoLast
    /\ UNCHANGED <<clock, scraper, call, upstream, progress, companies, products, failed,
                   interrupted>>

\* producthunt.py lines 270-273: the limit of the first request is
\* max_products when that fits one batch, else the scraper's own batch size.
ScrapeAllBatchLimit(r) ==
    IF r.page_num = 1 /\ r.limit # NoLimit /\ r.limit <= r.ph_scraper.max_batch_size
    THEN r.limit
    ELSE None

\* The locals when the while loop is left and scrape_ph.py has
\* tested the list: nothing to do (149-151), or the for loop of line 159.
ScrapeAllReturns(r, all_products) ==
    IF all_products = <<>>
    THEN [r EXCEPT !.pc = "streamlined_done", !.all_products = all_products]
    ELSE [r EXCEPT !.pc = "find", !.all_products = all_products,
                   !.page = all_products, !.idx = 1]

\* ScrapeAllFetchWith that keeps the last page only.
ScrapeAllFetchWithOverwrites(p, result) ==
    LET r == [run[p] EXCEPT !.nfetch = @ + 1, !.ph_scraper = result.self,
                            !.current_cursor = result.endCursor,
                            !.new_has_next_page = result.hasNextPage]
        all == result.products
    IN  /\ run[p].pc = "scrape_all"
        /\ run' = [run EXCEPT ![p] =
                IF result.products = <<>>
                THEN ScrapeAllReturns(r, r.all_products)
                ELSE IF r.limit # NoLimit /\ Len(all) >= r.limit
                THEN ScrapeAllReturns(r, SubSeq(all, 1, r.limit))
                ELSE IF r.page_num + 1 > MaxPages \/ ~result.hasNextPage
                THEN ScrapeAllReturns([r EXCEPT !.page_num = @ + 1], all)
                ELSE [r EXCEPT !.page_num = @ + 1, !.all_products = all]]
        /\ UNCHANGED <<clock, scraper, call, upstream, progress, companies, products, failed,
                       interrupted, last>>

\* One pass of the while loop of producthunt.py lines 268-303 with the
\* result of its request: an empty page leaves the loop (285-287), the page
\* is appended (289), max_products truncates and leaves (293-296), the page
\* count leaves after MaxPages pages (299-303), hasNextPage = false ends the
\* loop at its test (268).
ScrapeAllFetchWith(p, result) ==
    LET r == [run[p] EXCEPT !.nfetch = @ + 1, !.ph_scraper = result.self,
                            !.current_cursor = result.endCursor,
                            !.new_has_next_page = result.hasNextPage]
        all == r.all_products \o result.products
    IN  /\ run[p].pc = "scrape_all"
        /\ run' = [run EXCEPT ![p] =
                IF result.products = <<>>
                THEN ScrapeAllReturns(r, r.all_products)
                ELSE IF r.limit # NoLimit /\ Len(all) >= r.limit
                THEN ScrapeAllReturns(r, SubSeq(all, 1, r.limit))
                ELSE IF r.page_num + 1 > MaxPages \/ ~result.hasNextPage
                THEN ScrapeAllReturns([r EXCEPT !.page_num = @ + 1], all)
                ELSE [r EXCEPT !.page_num = @ + 1, !.all_products = all]]
        /\ UNCHANGED <<clock, scraper, call, upstream, progress, companies, products, failed,
                       interrupted, last>>

\* Lines 275-279: the request of one pass.
ScrapeAllFetch(p) ==
    /\ run[p].pc = "scrape_all"
    /\ \E result \in {GetProductsByDate(run[p].ph_scraper, run[p].date_str,
                                         ScrapeAllBatchLimit(run[p]),
                                         run[p].current_cursor)} :
           ScrapeAllFetchWith(p, result)

\* scrape_ph.py lines 151 and 198: the variant returns its id list.
StreamlinedReturn(p) ==
    LET r == run[p]
    IN  /\ r.pc = "streamlined_done"
        /\ run' = [run EXCEPT ![p] = IdleRun]
        /\ last' = [date |-> r.date_str, limit |-> r.limit, ids |-> r.product_ids,
                    exhausted |-> progress[r.date_str].created
                                  /\ ~progress[r.date_str].has_next_page,
                    cursor |-> IF progress[r.date_str].created
                               THEN progress[r.date_str].last_cursor ELSE NoCursor,
                    records |-> Cardinality(products)]
        /\ UNCHANGED <<clock, scraper, call, upstream, progress, companies, products, failed,
                       interrupted>>

\* ---------------------------------------------------------- specification
Init ==
    /\ upstream \in [Dates -> SeqsUpTo(Names, MaxPosts)]
    /\ Len(upstream["d1"]) + Len(upstream["d2"]) <= MaxPosts
    /\ FirstOccurrenceOrder(upstream["d1"] \o upstream["d2"])
    /\ progress = [d \in Dates |-> NoRow]
    /\ companies = {}
    /\ products = {}
    /\ run = [p \in Controllers |-> IdleRun]
    /\ failed = [d \in Dates |-> FALSE]
    /\ interrupted = [d \in Dates |-> -1]
    /\ last = NoLast
    /\ scraper = NewScraper
    /\ call = NoCall
    /\ clock = StartOfClock

Step(p) ==
    \/ \E d \in Dates, lim \in 0..MaxLimit : Start(p, d, lim)
    \/ Fetch(p)
    \/ FetchFails(p)
    \/ FetchCostLimited(p)
    \/ FindExisting(p)
    \/ GetOrCreateCompany(p)
    \/ CheckSignal(p)
    \/ InsertProduct(p)
    \/ UpdateProgress(p)
    \/ MarkExhausted(p)
    \/ Return(p)
    \/ Crash(p)
    \/ PersistenceError(p)

Next ==
    \/ \E p \in Sequential : Step(p)
    \/ \E c \in companies : FlagSignal(c)

Spec == Init /\ [][Next]_vars

\* One date, a catalog one post longer, limits one larger, no outside writer
\* and no failing fetch: the runs over several pages of one date.
DeepNames == Names \cup {"C"}

InitDeep ==
    /\ upstream \in [Dates -> SeqsUpTo(DeepNames, MaxPosts + 1)]
    /\ Len(upstream["d2"]) = 0
    /\ FirstOccurrenceOrder(upstream["d1"])
    /\ progress = [d \in Dates |-> NoRow]
    /\ companies = {}
    /\ products = {}
    /\ run = [p \in Controllers |-> IdleRun]
    /\ failed = [d \in Dates |-> FALSE]
    /\ interrupted = [d \in Dates |-> -1]
    /\ last = NoLast
    /\ scraper = NewScraper
    /\ call = NoCall
    /\ clock = StartOfClock

NextDeep ==
    \E p \in Sequential :
        \/ \E lim \in 0..(MaxLimit + 1) : Start(p, "d1", lim)
        \/ Fetch(p)
        \/ FindExisting(p)
        \/ GetOrCreateCompany(p)
        \/ CheckSignal(p)
        \/ InsertProduct(p)
        \/ UpdateProgress(p)
        \/ MarkExhausted(p)
        \/ Return(p)
        \/ Crash(p)
        \/ PersistenceError(p)

SpecDeep == InitDeep /\ [][NextDeep]_vars

\* ------------------------------------------- two controllers, two dates
\* get_or_create_company as two statements of one session: the SELECT of
\* line 55 ...
QueryCompany(p) ==
    LET r == run[p]
        n == r.page[r.idx]
    IN  /\ r.pc = "company"
        /\ IF CompaniesNamed(n) # {}
           THEN run' = [run EXCEPT ![p].pc = "signal",
                                   ![p].company_id = (CHOOSE c \in CompaniesNamed(n) : TRUE).id]
           ELSE run' = [run EXCEPT ![p].pc = "company_add"]
        /\ UNCHANGED <<clock, scraper, call, upstream, progress, companies, products, failed,
                       interrupted, last>>

\* ... and the INSERT committed at line 64.  company_name is unique: when
\* another session has committed the name since the SELECT, the commit raises
\* IntegrityError, line 68 turns it into Exception and the invocation ends
\* with it.
AddCompany(p) ==
    LET r == run[p]
        n == r.page[r.idx]
    IN  /\ r.pc = "company_add"
        /\ IF CompaniesNamed(n) # {}
           THEN /\ companies' = companies
                /\ run' = [run EXCEPT ![p].pc = "raised"]
           ELSE /\ companies' = companies \cup
                        {[id |-> NextId(companies), company_name |-> n, is_signal |-> FALSE]}
                /\ run' = [run EXCEPT ![p].pc = "signal",
                                      ![p].company_id = NextId(companies)]
        /\ UNCHANGED <<clock, scraper, call, upstream, progress, products, failed, interrupted, last>>

\* Each controller instance is given its own date.
DateOf(p) == IF p = 1 THEN "d1" ELSE "d2"

StepConc(p) ==
    \/ \E lim \in 0..MaxLimit : Start(p, DateOf(p), lim)
    \/ Fetch(p)
    \/ FindExisting(p)
    \/ QueryCompany(p)
    \/ AddCompany(p)
    \/ CheckSignal(p)
    \/ InsertProduct(p)
    \/ UpdateProgress(p)
    \/ MarkExhausted(p)
    \/ Return(p)

NextConc == \E p \in Controllers : StepConc(p)

SpecConc == Init /\ [][NextConc]_vars

\* ------------------------------------------- the Catalog Client, called directly
\* Requests of the object that were followed one by one.
Made(self) ==
    IF self.request_count >= LongRun
    THEN self.request_count - LongRun
    ELSE self.request_count

\* The limit argument: None, or one above every batch size.
ClientLimits == {None, 2 * MaxOptimalBatch}

PageSizes == {1, DefaultBatchSize}

Entries(n) == [i \in 1..n |-> "A"]

\* The error lists of up to MaxErrors items, one per choice of how many
\* messages hold "complexity", "limit" or neither (the loop of lines 188-194
\* treats the items alike wherever they stand).
Repeat(message, k) == [i \in 1..k |-> message]

ErrorLists ==
    {Repeat("complexity", c) \o Repeat("limit", l) \o Repeat("other", o) :
        <<c, l, o>> \in {t \in (0..MaxErrors) \X (0..MaxErrors) \X (0..MaxErrors) :
                            t[1] + t[2] + t[3] \in 1..MaxErrors}}

Responses ==
    {Response(kind, <<>>, <<>>, FALSE, NoCursor, FALSE) : kind \in Raising}
    \cup {Response("errors", errors, <<>>, FALSE, NoCursor, FALSE) :
            errors \in ErrorLists}
    \cup {Response("posts", <<>>, <<>>, FALSE, NoCursor, FALSE)}
    \cup {Response("posts", <<>>, Entries(n), pageInfo, n, pageInfo) :
            n \in PageSizes, pageInfo \in BOOLEAN}

\* One call get_products_by_date(date, limit, after_cursor) and the response
\* the upstream gives to its request.
ScraperCall(limit, resp) ==
    /\ Made(scraper) < MaxRequests
    /\ LET result == HandleResponse(scraper, resp)
       IN  /\ scraper' = result.self
           /\ call' = [op |-> "get_products_by_date", limit |-> limit,
                       first |-> BatchSize(scraper, limit), before |-> scraper,
                       kind |-> resp.kind, errors |-> resp.errors,
                       sent |-> Len(resp.edges), pageInfo |-> resp.pageInfo,
                       count |-> Len(result.products),
                       endCursor |-> result.endCursor,
                       hasNextPage |-> result.hasNextPage,
                       raised |-> result.raised]
    /\ UNCHANGED crawlVars
    /\ UNCHANGED clock

\* The long life of the object before it is followed: one more successful
\* request of a single entry.
SinglePage ==
    /\ call = NoCall
    /\ clock = StartOfClock
    /\ scraper.request_count < LongRun
    /\ scraper' = HandleResponse(scraper, Response("posts", <<>>, Entries(1), TRUE,
                                                   1, TRUE)).self
    /\ UNCHANGED <<clock, call, upstream, progress, companies, products, run, failed,
                   interrupted, last>>

InitClient ==
    /\ upstream = [d \in Dates |-> <<>>]
    /\ progress = [d \in Dates |-> NoRow]
    /\ companies = {}
    /\ products = {}
    /\ run = [p \in Controllers |-> IdleRun]
    /\ failed = [d \in Dates |-> FALSE]
    /\ interrupted = [d \in Dates |-> -1]
    /\ last = NoLast
    /\ scraper = NewScraper
    /\ call = NoCall
    /\ clock = StartOfClock

NextClient ==
    \/ \E limit \in ClientLimits, resp \in Responses : ScraperCall(limit, resp)
    \/ SinglePage

SpecClient == InitClient /\ [][NextClient]_vars

\* --------------------------------------- the Progress Store, called directly
\* One call get_or_create_scrape_progress(d) and the row it returns.
StoreGetOrCreate(d) ==
    /\ progress' = GetOrCreateScrapeProgress(d)
    /\ call' = [op |-> "get_or_create_scrape_progress", date |-> d,
                before |-> progress, returned |-> progress'[d], raised |-> FALSE]
    /\ UNCHANGED <<clock, scraper, upstream, companies, products, run, failed, interrupted, last>>

\* One call update_scrape_progress(d, last_cursor, has_next_page).
StoreUpdate(d, last_cursor, has_next_page) ==
    /\ progress' = UpdateScrapeProgress(d, last_cursor, has_next_page)
    /\ call' = [op |-> "update_scrape_progress", date |-> d, before |-> progress,
                last_cursor |-> last_cursor, has_next_page |-> has_next_page,
                raised |-> ScrapeProgressNotFound(d)]
    /\ UNCHANGED <<clock, scraper, upstream, companies, products, run, failed, interrupted, last>>

\* One call get_or_create_company(n) and the id it returns.
StoreGetOrCreateCompany(n) ==
    /\ companies' = GetOrCreateCompanyRows(n)
    /\ call' = [op |-> "get_or_create_company", company_name |-> n,
                before |-> companies, after |-> companies',
                returned |-> GetOrCreateCompanyId(n)]
    /\ UNCHANGED <<clock, scraper, upstream, progress, products, run, failed, interrupted, last>>

NextStore ==
    \/ \E d \in Dates : StoreGetOrCreate(d)
    \/ \E d \in Dates, last_cursor \in 0..MaxPosts, has_next_page \in BOOLEAN :
          StoreUpdate(d, last_cursor, has_next_page)
    \/ \E n \in Names : StoreGetOrCreateCompany(n)
    \/ \E c \in companies : FlagSignal(c)

\* No call made yet, every table empty.
InitStore == InitClient

SpecStore == InitStore /\ [][NextStore]_vars

\* ------------------------------- the crawl with the stages downstream of it
\* enrich_social_links, one turn of its loop: a row of status 0 (never
\* enriched) leaves with status 1 in one commit.
EnrichSocial(product) ==
    /\ product \in products
    /\ product.status = 0
    /\ products' = (products \ {product}) \cup {[product EXCEPT !.status = 1]}
    /\ UNCHANGED <<clock, scraper, call, upstream, progress, companies, run, failed,
                   interrupted, last>>

\* What the detector makes of a record: "signal" or "no_signal" (the result's
\* is_signal), or "none" (no Product Hunt data, no result, an exception).
Verdicts == {"signal", "no_signal", "none"}

\* The companies table after lines 97-101 for a record of company_id.
SignalCompany(company_id, verdict) ==
    {IF verdict = "signal" /\ c.id = company_id /\ ~c.is_signal
     THEN [c EXCEPT !.is_signal = TRUE]
     ELSE c : c \in companies}

\* Lines 97-101 storing the verdict as the company's flag.
SignalCompanyStoresVerdict(company_id, verdict) ==
    {IF verdict # "none" /\ c.id = company_id
     THEN [c EXCEPT !.is_signal = (verdict = "signal")]
     ELSE c : c \in companies}

\* analyze_signals with the flag write replaced.
AnalyzeSignalsStoresVerdict(product, verdict) ==
    /\ product \in products
    /\ product.status = 1
    /\ products' = (products \ {product}) \cup {[product EXCEPT !.status = 2]}
    /\ companies' = SignalCompanyStoresVerdict(product.company_id, verdict)
    /\ call' = [op |-> "analyze_signals", product |-> product.id, verdict |-> verdict,
                before |-> companies]
    /\ UNCHANGED <<clock, scraper, upstream, progress, run, failed, interrupted, last>>

\* analyze_signals, one turn of its loop: a row of status 1 not yet reviewed
\* leaves reviewed with status 2, and a signal verdict flags its company, in
\* one commit.
AnalyzeSignals(product, verdict) ==
    /\ product \in products
    /\ product.status = 1
    /\ products' = (products \ {product}) \cup {[product EXCEPT !.status = 2]}
    /\ companies' = SignalCompany(product.company_id, verdict)
    /\ call' = [op |-> "analyze_signals", product |-> product.id, verdict |-> verdict,
                before |-> companies]
    /\ UNCHANGED <<clock, scraper, upstream, progress, run, failed, interrupted, last>>

\* The catalog of one date, nothing stored.
InitPipeline ==
    /\ upstream \in [Dates -> SeqsUpTo(Names, MaxPosts)]
    /\ Len(upstream["d2"]) = 0
    /\ FirstOccurrenceOrder(upstream["d1"])
    /\ progress = [d \in Dates |-> NoRow]
    /\ companies = {}
    /\ products = {}
    /\ run = [p \in Controllers |-> IdleRun]
    /\ failed = [d \in Dates |-> FALSE]
    /\ interrupted = [d \in Dates |-> -1]
    /\ last = NoLast
    /\ scraper = NewScraper
    /\ call = NoCall
    /\ clock = StartOfClock

\* The crawl of the date with enrichment and analysis running beside it; a
\* company may also be flagged for a record outside this catalog.
NextPipeline ==
    \/ \E p \in Sequential :
          \/ \E lim \in 0..MaxLimit : Start(p, "d1", lim)
          \/ Fetch(p)
          \/ FindExisting(p)
          \/ GetOrCreateCompany(p)
          \/ CheckSignal(p)
          \/ InsertProduct(p)
          \/ UpdateProgress(p)
          \/ MarkExhausted(p)
          \/ Return(p)
          \/ PersistenceError(p)
    \/ \E product \in products : EnrichSocial(product)
    \/ \E product \in products, verdict \in Verdicts : AnalyzeSignals(product, verdict)
    \/ \E c \in companies : FlagSignal(c)

SpecPipeline == InitPipeline /\ [][NextPipeline]_vars

\* -------------------------------------------- two controllers, one date
\* Two invocations for the same date overlap, as two periodic runs can when
\* one outlasts the schedule's interval.
StepSameDate(p) ==
    \/ \E lim \in 0..MaxLimit : Start(p, "d1", lim)
    \/ Fetch(p)
    \/ FindExisting(p)
    \/ QueryCompany(p)
    \/ AddCompany(p)
    \/ CheckSignal(p)
    \/ InsertProduct(p)
    \/ UpdateProgress(p)
    \/ MarkExhausted(p)
    \/ Return(p)

NextSameDate == \E p \in Controllers : StepSameDate(p)

InitSameDate == InitPipeline

SpecSameDate == InitSameDate /\ [][NextSameDate]_vars

\* ------------------------- the stages called with the id list of a crawl
IdsOf(product_ids) == {product_ids[i] : i \in 1..Len(product_ids)}

\* Pending whose id list replaces the status filter.
PendingIgnoresStatus(status, product_ids) ==
    IF product_ids # <<>>
    THEN {row \in products : row.id \in IdsOf(product_ids)}
    ELSE {row \in products : row.status = status}

\* enrich_social.py lines 42-50 and analyze_signals.py lines 27-45 with
\* product_ids given and no limit: the rows of the stage's status, filtered by
\* the id list under `if product_ids:`, which an empty list does not pass.
Pending(status, product_ids) ==
    {row \in products :
        /\ row.status = status
        /\ product_ids # <<>> => row.id \in IdsOf(product_ids)}

\* No invocation of the controller is under way and the last one returned.
Returned_ids ==
    /\ \A p \in Controllers : run[p].pc = "idle"
    /\ last.date # NoDate

\* enrich_social_links(product_ids=product_ids), one turn of its loop.
EnrichSocialLinks(product, product_ids) ==
    /\ product \in Pending(0, product_ids)
    /\ products' = (products \ {product}) \cup {[product EXCEPT !.status = 1]}
    /\ call' = [op |-> "enrich_social_links", product_ids |-> product_ids,
                product |-> product.id, before |-> product.status]
    /\ UNCHANGED <<clock, scraper, upstream, progress, companies, run, failed,
                   interrupted, last>>

\* analyze_signals(product_ids=product_ids), one turn of its loop.
AnalyzeSignalsOf(product, product_ids, verdict) ==
    /\ product \in Pending(1, product_ids)
    /\ products' = (products \ {product}) \cup {[product EXCEPT !.status = 2]}
    /\ companies' = SignalCompany(product.company_id, verdict)
    /\ call' = [op |-> "analyze_signals", product_ids |-> product_ids,
                product |-> product.id, before |-> product.status]
    /\ UNCHANGED <<clock, scraper, upstream, progress, run, failed, interrupted, last>>

\* The crawl of one date, one invocation at a time, and the two stages: as
\* the periodic tasks call them (no id list), and as scrape_full_pipeline
\* calls them with the id list the crawl returned.  Nothing else writes.
NextStages ==
    \/ \E p \in Sequential :
          \/ \E lim \in 0..MaxLimit : Start(p, "d1", lim)
          \/ Fetch(p)
          \/ FetchFails(p)
          \/ FindExisting(p)
          \/ GetOrCreateCompany(p)
          \/ CheckSignal(p)
          \/ InsertProduct(p)
          \/ UpdateProgress(p)
          \/ MarkExhausted(p)
          \/ Return(p)
          \/ Crash(p)
          \/ PersistenceError(p)
    \/ \E product \in products : EnrichSocial(product)
    \/ \E product \in products, verdict \in Verdicts : AnalyzeSignals(product, verdict)
    \/ /\ Returned_ids
       /\ \E product \in products : EnrichSocialLinks(product, last.ids)
    \/ /\ Returned_ids
       /\ \E product \in products, verdict \in Verdicts :
             AnalyzeSignalsOf(product, last.ids, verdict)

InitStages == InitPipeline

SpecStages == InitStages /\ [][NextStages]_vars

\* --------------------------------------------- the two crawl variants
\* One invocation of either variant over a date that no invocation has
\* crawled yet, with no limit and no failing fetch.  The rows it finds come
\* from crawls of the other date and from the signal analysis between
\* invocations.  A catalog is short, or has MaxPages or MaxPages + 1 pages.
LongCatalogs == {[i \in 1..(k * LongPage) |-> "A"] : k \in {MaxPages, MaxPages + 1}}

Pages(d) == (Len(upstream[d]) + ServedPerPage(d) - 1) \div ServedPerPage(d)

Uncrawled(d) ==
    /\ progress[d] = NoRow
    /\ \A r \in products : r.launch_date # d

AllIdle == \A p \in Controllers : run[p].pc = "idle"

InitVariants ==
    /\ \/ /\ upstream \in [Dates -> SeqsUpTo(Names, MaxPosts)]
          /\ Len(upstream["d1"]) + Len(upstream["d2"]) <= MaxPosts
          /\ FirstOccurrenceOrder(upstream["d2"] \o upstream["d1"])
       \/ upstream \in {[d \in Dates |-> IF d = "d1" THEN c ELSE <<>>] :
                            c \in LongCatalogs}
    /\ progress = [d \in Dates |-> NoRow]
    /\ companies = {}
    /\ products = {}
    /\ run = [p \in Controllers |-> IdleRun]
    /\ failed = [d \in Dates |-> FALSE]
    /\ interrupted = [d \in Dates |-> -1]
    /\ last = NoLast
    /\ scraper = NewScraper
    /\ call = NoCall
    /\ clock = StartOfClock

StepVariants(p) ==
    \/ Start(p, "d2", NoLimit)
    \/ Uncrawled("d1") /\ Start(p, "d1", NoLimit)
    \/ Uncrawled("d1") /\ StreamlinedStart(p, "d1", NoLimit)
    \/ Fetch(p)
    \/ ScrapeAllFetch(p)
    \/ FindExisting(p)
    \/ GetOrCreateCompany(p)
    \/ CheckSignal(p)
    \/ InsertProduct(p)
    \/ UpdateProgress(p)
    \/ MarkExhausted(p)
    \/ Return(p)
    \/ StreamlinedReturn(p)

NextVariants ==
    \/ \E p \in Sequential : StepVariants(p)
    \/ \E c \in companies : AllIdle /\ FlagSignal(c)

SpecVariants == InitVariants /\ [][NextVariants]_vars

\* ------------------------------------------------ invocations that end
\* Invocations of both variants over one date, with and without a limit and
\* with fetches that fail.  The date of MaxPages + 1 pages is crawled once,
\* without a limit.  An invocation that has begun executes its next
\* statement: nothing in either function waits for another process.
MayStart(d, lim) ==
    \/ Len(upstream[d]) <= MaxPages
    \/ Uncrawled(d) /\ lim = NoLimit

InitTerminating ==
    /\ \/ /\ upstream \in [Dates -> SeqsUpTo(Names, MaxPosts)]
          /\ FirstOccurrenceOrder(upstream["d1"])
       \/ upstream \in {[d \in Dates |-> IF d = "d1" THEN c ELSE <<>>] :
                            c \in LongCatalogs}
    /\ Len(upstream["d2"]) = 0
    /\ Pages("d1") # MaxPages
    /\ progress = [d \in Dates |-> NoRow]
    /\ companies = {}
    /\ products = {}
    /\ run = [p \in Controllers |-> IdleRun]
    /\ failed = [d \in Dates |-> FALSE]
    /\ interrupted = [d \in Dates |-> -1]
    /\ last = NoLast
    /\ scraper = NewScraper
    /\ call = NoCall
    /\ clock = StartOfClock

Begin(p) ==
    \E lim \in 0..MaxLimit :
        /\ MayStart("d1", lim)
        /\ (Start(p, "d1", lim) \/ StreamlinedStart(p, "d1", lim))

Proceed(p) ==
    \/ Fetch(p)
    \/ FetchFails(p)
    \/ ScrapeAllFetch(p)
    \/ FindExisting(p)
    \/ GetOrCreateCompany(p)
    \/ CheckSignal(p)
    \/ InsertProduct(p)
    \/ UpdateProgress(p)
    \/ MarkExhausted(p)
    \/ Return(p)
    \/ StreamlinedReturn(p)

NextTerminating == \E p \in Sequential : Begin(p) \/ Proceed(p)

SpecTerminating ==
    /\ InitTerminating
    /\ [][NextTerminating]_vars
    /\ \A p \in Sequential : WF_vars(Proceed(p))

\* ------------------------------------------------- the periodic crawl
\* auto_scrape_yesterday, which the beat schedule starts every ten minutes:
\* scrape_producthunt_only for one date with one limit, again and again, over
\* a catalog that does not change and with no failing fetch.  The limit is
\* the task's, or a smaller one; the first invocation fixes it.
PeriodicLimits == (1..MaxLimit) \cup {AutoScrapeLimit}

InitPeriodic ==
    /\ upstream \in {[d \in Dates |-> IF d = "d1" THEN c ELSE <<>>] :
                         c \in SeqsUpTo(Names, 3 * MaxPosts)}
    /\ FirstOccurrenceOrder(upstream["d1"])
    /\ progress = [d \in Dates |-> NoRow]
    /\ companies = {}
    /\ products = {}
    /\ run = [p \in Controllers |-> IdleRun]
    /\ failed = [d \in Dates |-> FALSE]
    /\ interrupted = [d \in Dates |-> -1]
    /\ last = NoLast
    /\ scraper = NewScraper
    /\ call = NoCall
    /\ clock = StartOfClock

AutoScrapeYesterday(p) ==
    \E lim \in PeriodicLimits :
        /\ last.date = NoDate \/ last.limit = lim
        /\ Start(p, "d1", lim)

PeriodicStep(p) ==
    \/ Fetch(p)
    \/ FindExisting(p)
    \/ GetOrCreateCompany(p)
    \/ CheckSignal(p)
    \/ InsertProduct(p)
    \/ UpdateProgress(p)
    \/ MarkExhausted(p)
    \/ Return(p)

NextPeriodic == \E p \in Sequential : AutoScrapeYesterday(p) \/ PeriodicStep(p)

SpecPeriodic ==
    /\ InitPeriodic
    /\ [][NextPeriodic]_vars
    /\ \A p \in Sequential : WF_vars(AutoScrapeYesterday(p)) /\ WF_vars(PeriodicStep(p))

\* ----------------------------------------------- the pacing of the requests
\* The responses the pacing is followed with: the post raises, the upstream
\* answers with an HTTP error status, with a cost-limit error, with one entry.
PacedResponses ==
    {Response(kind, <<>>, <<>>, FALSE, NoCursor, FALSE) : kind \in {"transport", "http"}}
    \cup {Response("errors", <<"limit">>, <<>>, FALSE, NoCursor, FALSE),
          Response("posts", <<>>, Entries(1), TRUE, 1, TRUE)}

\* One call get_products_by_date(date, None, after_cursor) at the time of the
\* clock; its request takes `latency` ticks.
PacedCall(resp, latency) ==
    LET sent == SendTime(scraper, clock)
        returned == sent + latency
        result == HandleResponse(Stamped(scraper, resp.kind, sent, returned), resp)
    IN  /\ Made(scraper) < MaxRequests
        /\ returned <= StartOfClock + MaxElapsed
        /\ clock' = returned
        /\ scraper' = result.self
        /\ call' = [op |-> "get_products_by_date", kind |-> resp.kind,
                    called_at |-> clock, sent_at |-> sent,
                    previous |-> IF call.op = "get_products_by_date"
                                 THEN [kind |-> call.kind, sent_at |-> call.sent_at]
                                 ELSE [kind |-> "none", sent_at |-> None],
                    count |-> Len(result.products)]
        /\ UNCHANGED crawlVars

\* Time passes between two calls.
Tick ==
    /\ clock < StartOfClock + MaxElapsed
    /\ clock' = clock + 1
    /\ UNCHANGED <<scraper, call, upstream, progress, companies, products, run,
                   failed, interrupted, last>>

InitRate == InitClient

NextRate ==
    \/ \E resp \in PacedResponses, latency \in 0..MaxLatency : PacedCall(resp, latency)
    \/ Tick

SpecRate == InitRate /\ [][NextRate]_vars

\* The last direct call was get_products_by_date.
Called == call.op = "get_products_by_date"

\* ------------------------------------------------------------- properties
Entry(p) == run[p].page[run[p].idx]

Exhausted(d) == progress[d].created /\ ~progress[d].has_next_page

ProductIds == {r.id : r \in products}

\* C1: after any sequence of sequential invocations (any dates, limits and
\* catalogs, names repeated within a page, across pages or across dates, runs
\* aborted mid-page) the products table holds at most one row per name.
C1_OneRecordPerName ==
    \A a \in products : \A b \in products :
        a.product_name = b.product_name => a = b

\* A finished invocation met the same stored name twice.
C1_Witness ==
    \E p \in Controllers :
        /\ run[p].pc = "done"
        /\ \E i \in 1..Len(run[p].product_ids) : \E j \in 1..Len(run[p].product_ids) :
               i < j /\ run[p].product_ids[i] = run[p].product_ids[j]

\* C2: while a fetched page is not yet checkpointed, the persisted checkpoint
\* of its date holds the cursor the page was fetched with (and has_next_page);
\* after an abort in that window the checkpoint keeps that cursor, the next
\* invocation for the date fetches with it, and no name gets a second row.
C2_CheckpointBehindPage ==
    /\ \A p \in Controllers :
          run[p].pc \in MidPage =>
              /\ progress[run[p].date_str].last_cursor = run[p].current_cursor
              /\ progress[run[p].date_str].has_next_page
    /\ \A d \in Dates :
          interrupted[d] # -1 =>
              /\ progress[d].last_cursor = interrupted[d]
              /\ progress[d].has_next_page
    /\ \A p \in Controllers :
          (run[p].pc = "fetch" /\ run[p].nfetch = 0
               /\ interrupted[run[p].date_str] # -1) =>
              run[p].current_cursor = interrupted[run[p].date_str]
    /\ \A n \in DeepNames : Cardinality(ProductsNamed(n)) <= 1

\* An invocation is about to re-fetch a page (not the first of its date) that
\* an aborted one had fetched, some of whose entries already have rows.
C2_Witness ==
    \E p \in Controllers :
        /\ run[p].pc = "fetch"
        /\ run[p].nfetch = 0
        /\ interrupted[run[p].date_str] > 0
        /\ ProductsNamed(upstream[run[p].date_str][run[p].current_cursor + 1]) # {}

\* C3: an invocation for a date whose checkpoint has has_next_page = false
\* goes straight to its return with an empty id list and no fetch, and no
\* step of it changes the checkpoints, the companies or the products.
C3_ExhaustedIsNoOp ==
    [][\A p \in Controllers :
          /\ (run[p].pc = "idle" /\ run'[p].pc # "idle"
                 /\ Exhausted(run'[p].date_str)) =>
                /\ run'[p].pc = "done"
                /\ run'[p].product_ids = <<>>
                /\ run'[p].nfetch = 0
                /\ UNCHANGED <<progress, companies, products>>
          /\ (run[p].pc = "done" /\ run[p].nfetch = 0 /\ run'[p] # run[p]) =>
                /\ run[p].product_ids = <<>>
                /\ run'[p].pc = "idle"
                /\ UNCHANGED <<progress, companies, products>>]_vars

\* A later invocation for an exhausted date is at its return; rows exist.
C3_Witness ==
    \E p \in Controllers :
        /\ run[p].pc = "done"
        /\ run[p].nfetch = 0
        /\ products # {}

\* C4: under sequential execution no step changes a checkpoint's
\* has_next_page from false to true.
C4_HasMoreMonotone ==
    [][\A d \in Dates : Exhausted(d) => Exhausted(d)']_vars

\* Both dates are exhausted and a further invocation has started.
C4_Witness ==
    /\ \A d \in Dates : Exhausted(d)
    /\ \E p \in Controllers : run[p].pc # "idle"

Flagged(n) == \E c \in CompaniesNamed(n) : c.is_signal

\* C5: with an unchanging catalog and no failed fetch for a date, once the
\* date's checkpoint has has_next_page = false every catalog entry of the date
\* has a row of its name or belongs to a company flagged signal.
C5_ExhaustedMeansAllProcessed ==
    \A d \in Dates :
        (Exhausted(d) /\ ~failed[d]) =>
            \A i \in 1..Len(upstream[d]) :
                ProductsNamed(upstream[d][i]) # {} \/ Flagged(upstream[d][i])

\* A date of several pages is exhausted without a failed fetch, and one of
\* its entries was dropped for its flagged company.
C5_Witness ==
    \E d \in Dates :
        /\ Exhausted(d)
        /\ ~failed[d]
        /\ Len(upstream[d]) > ServerPageCap
        /\ \E i \in 1..Len(upstream[d]) : ProductsNamed(upstream[d][i]) = {}

\* C6: the step that processes an entry whose name has a row appends that
\* row's id and moves to the next entry: no company lookup follows, and the
\* companies and the products are unchanged, whatever the company's flag.
C6_ExistingNameShortCircuits ==
    [][\A p \in Controllers :
          (run[p].pc = "find" /\ ProductsNamed(Entry(p)) # {}
               /\ run'[p] # run[p] /\ run'[p].pc # "idle") =>
              /\ run'[p].product_ids =
                     Append(run[p].product_ids, FirstProductNamed(Entry(p)).id)
              /\ run'[p].idx = run[p].idx + 1
              /\ run'[p].pc \in {"find", "update"}
              /\ run'[p].company_id = 0
              /\ UNCHANGED <<companies, products>>]_vars

\* The first entry of a page was answered from a row that a run for the other
\* date had created, while its company is flagged signal.
C6_Witness ==
    \E p \in Controllers :
        /\ run[p].pc \in {"find", "update"}
        /\ run[p].idx = 2
        /\ Len(run[p].product_ids) = 1
        /\ Flagged(run[p].page[1])
        /\ \E r \in ProductsNamed(run[p].page[1]) :
               r.id = run[p].product_ids[1] /\ r.launch_date # run[p].date_str

\* C7: for an entry whose name has no row, the signal test decides: a flagged
\* company drops the entry (no row, no id, next entry); otherwise the insert
\* follows, and the insert adds exactly one row, of that name and with status
\* 0, and appends its id.
C7_SignalDecidesInsert ==
    [][\A p \in Controllers :
          (run'[p] # run[p] /\ run'[p].pc # "idle") =>
              /\ (run[p].pc = "signal" /\ Flagged(Entry(p))) =>
                    /\ run'[p].product_ids = run[p].product_ids
                    /\ run'[p].idx = run[p].idx + 1
                    /\ run'[p].pc \in {"find", "update"}
                    /\ products' = products
              /\ (run[p].pc = "signal" /\ ~Flagged(Entry(p))) =>
                    /\ run'[p].pc = "insert"
                    /\ ProductsNamed(Entry(p)) = {}
              /\ run[p].pc = "insert" =>
                    \E r \in products' :
                        /\ r \notin products
                        /\ products' = products \cup {r}
                        /\ r.product_name = Entry(p)
                        /\ r.status = 0
                        /\ ProductsNamed(Entry(p)) = {}
                        /\ run'[p].product_ids = Append(run[p].product_ids, r.id)]_vars

\* An entry has just been dropped: processed, its company flagged, no row.
C7_Witness ==
    \E p \in Controllers :
        /\ run[p].pc \in {"find", "update"}
        /\ run[p].idx > 1
        /\ Flagged(run[p].page[run[p].idx - 1])
        /\ ProductsNamed(run[p].page[run[p].idx - 1]) = {}

\* The scenario: stores empty, the catalog of d1 is A, B, B, C, and an
\* invocation for d1 without limit is at its return.
Scenario(p) ==
    /\ upstream["d1"] = <<"A", "B", "B", "C">>
    /\ run[p].pc = "done"
    /\ run[p].date_str = "d1"
    /\ run[p].limit = NoLimit
    /\ run[p].from_empty

\* C8 as stated: the scenario's invocation creates exactly the rows A, B, C,
\* returns a list of 3 ids and leaves has_next_page = false.
C8_AsStated ==
    \A p \in Controllers :
        Scenario(p) =>
            /\ Cardinality(products) = 3
            /\ {r.product_name : r \in products} = {"A", "B", "C"}
            /\ Len(run[p].product_ids) = 3
            /\ Exhausted("d1")

\* C8, amended: the scenario's invocation creates exactly the rows A, B, C,
\* returns one id per listed entry, that is 4 ids of which 3 are distinct,
\* B's id standing at both places where B is listed, and leaves
\* has_next_page = false.
C8_ScenarioFourIds ==
    \A p \in Controllers :
        Scenario(p) =>
            /\ Cardinality(products) = 3
            /\ {r.product_name : r \in products} = {"A", "B", "C"}
            /\ Len(run[p].product_ids) = 4
            /\ \A i \in 1..4 :
                  run[p].product_ids[i] = FirstProductNamed(upstream["d1"][i]).id
            /\ run[p].product_ids[2] = run[p].product_ids[3]
            /\ Cardinality(Range(run[p].product_ids)) = 3
            /\ Exhausted("d1")

\* The scenario's invocation is at its return, having fetched page 1 = A, B
\* and page 2 = B, C.
C8_Witness ==
    \E p \in Controllers :
        /\ Scenario(p)
        /\ run[p].nfetch = 2
        /\ run[p].page = <<"B", "C">>
        /\ run[p].current_cursor = 2

\* C9: the limit is tested only after a whole page is processed and its
\* checkpoint persisted: an invocation at its return has processed every entry
\* of the last page it fetched (one id each, no company being flagged here),
\* a limit stop leaves the checkpoint at that page's cursor and flag, and no
\* page is fetched once the entries counted reach the limit.
C9_LimitTestedAfterWholePage ==
    \A p \in Controllers :
        /\ (run[p].pc = "done" /\ run[p].page # <<>>) =>
              /\ run[p].idx = Len(run[p].page) + 1
              /\ Len(run[p].product_ids) = run[p].total_fetched
              /\ (run[p].limit # NoLimit /\ run[p].total_fetched >= run[p].limit) =>
                    /\ progress[run[p].date_str].last_cursor = run[p].new_end_cursor
                    /\ progress[run[p].date_str].has_next_page = run[p].new_has_next_page
        /\ (run[p].pc = "fetch" /\ run[p].limit # NoLimit) =>
              run[p].total_fetched < run[p].limit
        /\ run[p].pc \in MidPage =>
              Len(run[p].product_ids) = run[p].total_fetched + run[p].idx - 1

\* A limited invocation stopped after a page that held more entries than the
\* limit had left, all of them processed.
C9_Witness ==
    \E p \in Controllers :
        /\ run[p].pc = "done"
        /\ run[p].limit # NoLimit
        /\ run[p].total_fetched > run[p].limit
        /\ run[p].total_fetched - Len(run[p].page) < run[p].limit
        /\ Len(run[p].product_ids) = run[p].total_fetched
        /\ progress[run[p].date_str].last_cursor = run[p].new_end_cursor

\* The invocation at its return repeats the date and limit of the one that
\* returned just before it, and no fetch of the date has failed.
Repeats(p) ==
    /\ run[p].pc = "done"
    /\ last.date = run[p].date_str
    /\ last.limit = run[p].limit
    /\ ~failed[run[p].date_str]

Degraded ==
    \/ call.kind \in Raising \cup {"errors"}
    \/ call.kind = "posts" /\ (~call.pageInfo \/ call.sent = 0)

\* The last call's _track_complexity_usage raised: the estimate of line 80
\* came out zero and line 83 divided by it.
TrackingRaised ==
    /\ call.kind = "posts"
    /\ call.sent > 0
    /\ scraper.request_count % OptimizeEvery = 0
    /\ scraper.complexity_per_product = 0

\* C11 as stated: whatever goes wrong upstream (transport exception, HTTP
\* error, GraphQL errors, a body with missing fields), get_products_by_date
\* raises nothing and returns no entries with hasNextPage false.
C11_AsStated ==
    Called /\ Degraded =>
        ~call.raised /\ call.count = 0 /\ ~call.hasNextPage

\* C11: get_products_by_date never raises.  A transport exception, an HTTP
\* error, an undecodable body, a GraphQL errors body, a null data, an edge
\* without node and an exception while tracking cost all give the empty page
\* with a null cursor and hasNextPage false; a body without edges gives no
\* entries and hasNextPage false; a body whose edges are there and whose
\* pageInfo is missing gives its entries, a null cursor and hasNextPage false.
C11_FailSoft ==
    Called =>
        /\ ~call.raised
        /\ call.kind \in Raising \cup {"errors"} \/ TrackingRaised =>
              call.count = 0 /\ ~call.hasNextPage /\ call.endCursor = NoCursor
        /\ call.kind = "posts" /\ call.sent = 0 =>
              call.count = 0 /\ ~call.hasNextPage
        /\ call.kind = "posts" /\ ~call.pageInfo /\ ~TrackingRaised =>
              /\ call.count = call.sent
              /\ ~call.hasNextPage
              /\ call.endCursor = NoCursor

\* A page of entries arrived whole and the cost tracking raised on it.
C11_Witness ==
    /\ Called
    /\ TrackingRaised
    /\ call.pageInfo
    /\ call.count = 0
    /\ ~call.raised

\* The last call received an errors body with a cost-limit message in it.
CostLimited ==
    /\ Called
    /\ call.kind = "errors"
    /\ \E i \in 1..Len(call.errors) : IsCostLimit(call.errors[i])

\* C12: a call answered with a cost-limit error leaves max_batch_size at
\* max(1, previous \div 2) -- one halving, however many error items the body
\* carries -- and returns the empty page with hasNextPage false.
C12_AsStated ==
    CostLimited =>
        /\ scraper.max_batch_size = Max(1, call.before.max_batch_size \div 2)
        /\ call.count = 0
        /\ ~call.hasNextPage

\* The fifth request of a fresh object whose five requests brought 50 entries
\* each has just returned.
FiveFullPages ==
    /\ Called
    /\ call.count = DefaultBatchSize
    /\ scraper.request_count = OptimizeEvery
    /\ scraper.total_complexity_used
          = OptimizeEvery * DefaultBatchSize * ComplexityPerProduct
    /\ call.before.max_batch_size = DefaultBatchSize

\* C14: on a fresh object the first four successful requests leave the cost
\* estimate and the batch size alone; the fifth of five requests of 50
\* entries each sets the batch size to 450000 \div (observed cost per entry)
\* clamped to [1, 100], which is 100.
C14_FifthRequestRetunes ==
    /\ Called /\ call.count > 0 /\ scraper.request_count \in 1..(OptimizeEvery - 1) =>
          /\ scraper.complexity_per_product = ComplexityPerProduct
          /\ scraper.max_batch_size = call.before.max_batch_size
    /\ FiveFullPages =>
          /\ scraper.complexity_per_product = 4000
          /\ scraper.max_batch_size
                = Max(1, Min(100, 450000 \div scraper.complexity_per_product))
          /\ scraper.max_batch_size = 100

C14_Witness == FiveFullPages /\ scraper.max_batch_size # call.before.max_batch_size

\* C15: the request's `first` is the caller's limit unchanged when one is
\* given, even above max_batch_size and above 100, and max_batch_size when
\* the limit is None; the controller hands its own limit on as that limit
\* (None when it has none).
C15_PageSizeSent ==
    /\ Called =>
          call.first = IF call.limit = None
                       THEN call.before.max_batch_size
                       ELSE call.limit
    /\ \A lim \in 0..(2 * MaxOptimalBatch) :
          BatchSize(scraper, BatchLimit(lim))
              = IF lim = NoLimit THEN scraper.max_batch_size ELSE lim

\* A limit above 100 went out unchanged from an object whose batch size was
\* halved before.
C15_Witness ==
    /\ Called
    /\ call.limit > MaxOptimalBatch
    /\ call.first = call.limit
    /\ call.before.max_batch_size < DefaultBatchSize

\* Controller p has returned from a fetch that a cost-limit error answered:
\* its scraper's batch size is halved and the page it got is empty.
CostLimitedRun(p) ==
    /\ run[p].pc = "done"
    /\ run[p].nfetch > 0
    /\ run[p].page = <<>>
    /\ run[p].ph_scraper.max_batch_size < DefaultBatchSize

\* C13: after a fetch that failed with a cost-limit error the date can be
\* taken up again at the same cursor -- its checkpoint still holds the cursor
\* of the failed fetch with has_next_page true -- so the entries behind that
\* cursor remain fetchable.
C13_AsStated ==
    \A p \in Controllers :
        CostLimitedRun(p) /\ run[p].current_cursor < Len(upstream[run[p].date_str]) =>
            /\ progress[run[p].date_str].has_next_page
            /\ progress[run[p].date_str].last_cursor = run[p].current_cursor

\* C16: two controllers that run at the same time on two different dates
\* whose catalogs share a name never leave two product rows of one name, and
\* neither invocation ends with an exception.
C16_AsStated ==
    /\ \A n \in Names : Cardinality(ProductsNamed(n)) <= 1
    /\ \A p \in Controllers : run[p].pc # "raised"

\* The first fetch of controller p's invocation brought an empty page.
EmptyFirstPage(p) ==
    /\ run[p].pc # "idle"
    /\ run[p].nfetch = 1
    /\ run[p].page = <<>>

\* C17: an invocation whose first fetch brings an empty page has persisted
\* the checkpoint (null cursor, has_next_page false) for its date and is at
\* its return with an empty id list, whatever its limit and whatever the
\* cursor it started from.
C17_EmptyFirstPageExhausts ==
    \A p \in Controllers :
        EmptyFirstPage(p) =>
            /\ run[p].pc = "done"
            /\ run[p].product_ids = <<>>
            /\ progress[run[p].date_str] =
                  [created |-> TRUE, last_cursor |-> NoCursor, has_next_page |-> FALSE]

\* A limited invocation that started from a cursor within its date met an
\* empty first page.
C17_Witness ==
    \E p \in Controllers :
        /\ EmptyFirstPage(p)
        /\ run[p].limit # NoLimit
        /\ run[p].current_cursor > 0
        /\ ~progress[run[p].date_str].has_next_page

\* Controller p's invocation stopped because its limit was reached.
LimitStop(p) ==
    /\ run[p].pc = "done"
    /\ run[p].page # <<>>
    /\ run[p].limit # NoLimit
    /\ run[p].total_fetched >= run[p].limit

\* C18: when the limit stops an invocation, the persisted checkpoint is the
\* (endCursor, hasNextPage) of the last page fetched: has_next_page is not
\* forced to false and the cursor is not cleared.
C18_LimitStopKeepsPageInfo ==
    \A p \in Controllers :
        LimitStop(p) =>
            progress[run[p].date_str] =
                [created |-> TRUE, last_cursor |-> run[p].new_end_cursor,
                 has_next_page |-> run[p].new_has_next_page]

\* A limit stop after a page that has a successor.
C18_Witness ==
    \E p \in Controllers :
        /\ LimitStop(p)
        /\ run[p].new_has_next_page
        /\ progress[run[p].date_str].has_next_page
        /\ progress[run[p].date_str].last_cursor > 0

\* ------------------------------------------------------ the Progress Store
FreshRow == [created |-> TRUE, last_cursor |-> NoCursor, has_next_page |-> TRUE]

\* C19: get_or_create_scrape_progress(d) creates the row (null cursor,
\* has_next_page true) when the date has none and returns the stored row
\* unchanged when it has one; it returns the row of d and touches no other
\* date, so a repeated call changes nothing and adds no row.
C19_GetOrCreateIdempotent ==
    call.op = "get_or_create_scrape_progress" =>
        /\ call.before[call.date] = NoRow => progress[call.date] = FreshRow
        /\ call.before[call.date] # NoRow => progress[call.date] = call.before[call.date]
        /\ call.returned = progress[call.date]
        /\ \A d \in Dates \ {call.date} : progress[d] = call.before[d]
        /\ GetOrCreateScrapeProgress(call.date) = progress

\* get_or_create on a date whose row had moved on from the fresh one.
C19_Witness ==
    /\ call.op = "get_or_create_scrape_progress"
    /\ call.before[call.date] # NoRow
    /\ call.returned.last_cursor > 0
    /\ ~call.returned.has_next_page

\* C20: update_scrape_progress(d, ...) raises when d has no row, creating and
\* changing nothing; when d has a row it overwrites the cursor and the
\* has_next_page of that row and leaves the other dates' rows alone.
C20_UpdateNeedsRow ==
    call.op = "update_scrape_progress" =>
        /\ call.raised <=> call.before[call.date] = NoRow
        /\ call.raised => progress = call.before
        /\ ~call.raised =>
              /\ progress[call.date] =
                    [created |-> TRUE, last_cursor |-> call.last_cursor,
                     has_next_page |-> call.has_next_page]
              /\ \A d \in Dates \ {call.date} : progress[d] = call.before[d]

\* update raised for a date without a row while the other date has one.
C20_Witness ==
    /\ call.op = "update_scrape_progress"
    /\ call.raised
    /\ progress[call.date] = NoRow
    /\ \E d \in Dates : progress[d] # NoRow /\ progress[d].last_cursor > 0

\* ---------------------------------------------------- the Record Repository
NamedIn(table, n) == {c \in table : c.company_name = n}

\* C21: get_or_create_company(n) returns the id of the company named n when
\* the table has one and leaves the table as it was, flag included; else it
\* adds one row of that name with a new id and is_signal false.  Either way
\* the table then has exactly one company named n, whose id is returned, so
\* every further call returns that id.
C21_CompanyIdempotent ==
    /\ \A n \in Names : Cardinality(CompaniesNamed(n)) <= 1
    /\ call.op = "get_or_create_company" =>
          LET n == call.company_name
          IN  /\ NamedIn(call.before, n) # {} =>
                    /\ call.after = call.before
                    /\ \A c \in NamedIn(call.before, n) : call.returned = c.id
              /\ NamedIn(call.before, n) = {} =>
                    /\ call.after = call.before \cup
                          {[id |-> call.returned, company_name |-> n,
                            is_signal |-> FALSE]}
                    /\ \A c \in call.before : c.id # call.returned
              /\ Cardinality(NamedIn(call.after, n)) = 1
              /\ \A c \in CompaniesNamed(n) : c.id = call.returned

\* A call for a company that was there already and is flagged.
C21_Witness ==
    /\ call.op = "get_or_create_company"
    /\ \E c \in NamedIn(call.before, call.company_name) : c.is_signal
    /\ \E c \in CompaniesNamed(call.company_name) : c.is_signal /\ c.id = call.returned
    /\ Cardinality(companies) > 1

\* ------------------------------------------------- the controller's states
\* INIT is pc "idle", FETCHING "fetch", PROCESSING the entries of a page
\* (Processing) and then the checkpoint of line 107 ("update"), DONE "done";
\* "exhaust" is a second checkpoint update pending.
Processing == {"find", "company", "signal", "insert"}

LimitReached(r) == r.limit # NoLimit /\ r.total_fetched + Len(r.page) >= r.limit

\* The step of controller p is one the claim allows; a step back to "idle"
\* from within an invocation is its abort by the process's death or a raised
\* exception.  With `once` the checkpoint is taken to be updated once per
\* processed page.
Follows(p, once) ==
    LET r == run[p]
        n == run'[p]
    IN  \/ n = r
        \/ r.pc # "idle" /\ n.pc = "idle"
        \/ /\ r.pc = "idle"
           /\ n.pc \in {"fetch", "done"}
           /\ n.pc = "done" <=> ~progress'[n.date_str].has_next_page
        \/ /\ r.pc = "fetch"
           /\ n.pc \in {"find", "done"}
           /\ n.pc = "done" <=> n.page = <<>>
           /\ n.pc = "done" => ~progress'[r.date_str].has_next_page
           /\ n.pc = "find" => progress' = progress
        \/ /\ r.pc \in Processing
           /\ n.pc \in Processing \cup {"update"}
           /\ progress' = progress
        \/ /\ r.pc = "update"
           /\ progress'[r.date_str] =
                 [created |-> TRUE, last_cursor |-> r.new_end_cursor,
                  has_next_page |-> r.new_has_next_page]
           /\ IF LimitReached(r) THEN n.pc = "done"
              ELSE IF r.new_has_next_page
              THEN n.pc = "fetch" /\ n.current_cursor = r.new_end_cursor
              ELSE n.pc = IF once THEN "done" ELSE "exhaust"
        \/ /\ ~once
           /\ r.pc = "exhaust"
           /\ n.pc = "done"
           /\ progress'[r.date_str] =
                 [created |-> TRUE, last_cursor |-> NoCursor, has_next_page |-> FALSE]

\* C25 as stated: the invocation moves INIT->DONE exactly when the checkpoint
\* has has_next_page false, else INIT->FETCHING; FETCHING->DONE exactly when
\* the page is empty, else ->PROCESSING; PROCESSING->DONE at the limit or
\* after a page without successor, else ->FETCHING with the page's cursor;
\* and the checkpoint is updated exactly once after each processed page.
C25_AsStated == [][\A p \in Controllers : Follows(p, TRUE)]_vars

\* C25: the same transitions, with the checkpoint updated once after each
\* processed page (the page's cursor and flag) before the next fetch or the
\* limit stop, and a second time (null cursor, has_next_page false) after a
\* page without successor that the limit did not stop at.
C25_Transitions == [][\A p \in Controllers : Follows(p, FALSE)]_vars

\* The second update after the last page of a date of several pages is done.
C25_Witness ==
    \E p \in Controllers :
        /\ run[p].pc = "done"
        /\ run[p].page # <<>>
        /\ ~LimitStop(p)
        /\ run[p].current_cursor > 0
        /\ progress[run[p].date_str].last_cursor = NoCursor
        /\ run[p].new_end_cursor # NoCursor

\* C29: every invocation calls get_or_create_scrape_progress for its date
\* before anything else, so the date has a row whenever the invocation calls
\* update_scrape_progress and no invocation ends by the not-found exception.
C29_UpdateFindsRow ==
    \A p \in Controllers :
        /\ run[p].pc # "raised"
        /\ run[p].pc # "idle" => ~ScrapeProgressNotFound(run[p].date_str)

\* An invocation that found every table empty has updated the checkpoint of
\* its date after a page.
C29_Witness ==
    \E p \in Controllers :
        /\ run[p].from_empty
        /\ run[p].pc \in {"exhaust", "done"}
        /\ run[p].page # <<>>
        /\ progress[run[p].date_str].last_cursor = run[p].new_end_cursor
        /\ run[p].new_end_cursor > 0

\* The step of controller p treats the returned id list as the claim says:
\* a name-lookup hit appends the stored row's id, an insertion appends the
\* new row's id, a signal drop appends nothing, no other step of the
\* invocation touches the list, and the list handed back is the list built.
ListsProcessed(p) ==
    LET r == run[p]
        n == run'[p]
        entry == r.page[r.idx]
    IN  IF r.pc = "idle" THEN n.product_ids = <<>>
        ELSE IF n.pc = "idle"
        THEN r.pc = "done" /\ last' # NoLast => last'.ids = r.product_ids
        ELSE IF r.pc = "find" /\ n.idx = r.idx + 1
        THEN \E row \in products :
                /\ row.product_name = entry
                /\ n.product_ids = Append(r.product_ids, row.id)
        ELSE IF r.pc = "insert" /\ n.idx = r.idx + 1
        THEN \E row \in products' \ products :
                /\ row.product_name = entry
                /\ n.product_ids = Append(r.product_ids, row.id)
        ELSE n.product_ids = r.product_ids

\* C30: the returned id list holds, in page order then entry order, one id per
\* processed entry that was deduplicated or inserted and nothing for an entry
\* dropped by the signal check, so its length is the number of processed
\* entries minus the number dropped.
C30_IdsListProcessedEntries == [][\A p \in Controllers : ListsProcessed(p)]_vars

\* An unlimited run over three entries returned two ids: the first entry was
\* inserted, the second dropped for its flagged company, the third found as
\* the row of the first.
C30_Witness ==
    /\ last.date # NoDate
    /\ last.limit = NoLimit
    /\ Len(upstream[last.date]) = 3
    /\ Len(last.ids) = 2
    /\ last.ids[1] = last.ids[2]
    /\ Cardinality(products) = 1
    /\ \E c \in companies :
          c.is_signal /\ \A row \in products : row.company_id # c.id


\* C26: max_batch_size is an integer from 1 to 100 in every state of the
\* object, whatever successful requests, optimizations every fifth request and
\* cost-limit halvings it went through.
C26_BatchSizeInRange == scraper.max_batch_size \in 1..MaxOptimalBatch

\* An optimization whose quotient safe_complexity_limit \div estimate lies above
\* 100 left max_batch_size at 100.
C26_Witness ==
    /\ Called
    /\ call.before.max_batch_size < MaxOptimalBatch
    /\ scraper.max_batch_size = MaxOptimalBatch
    /\ scraper.complexity_per_product > 0
    /\ SafeComplexityLimit \div scraper.complexity_per_product > MaxOptimalBatch

\* C27: a call that returns a non-empty page adds (entries returned) x (the
\* estimate in force when the call began) to total_complexity_used and one to
\* request_count, and no call makes either smaller.
C27_CostAccounting ==
    Called =>
        /\ call.count > 0 =>
              /\ scraper.total_complexity_used
                    = call.before.total_complexity_used
                        + call.count * call.before.complexity_per_product
              /\ scraper.request_count = call.before.request_count + 1
        /\ scraper.total_complexity_used >= call.before.total_complexity_used
        /\ scraper.request_count >= call.before.request_count

\* A non-empty page returned by an object whose estimate is no longer the
\* initial one.
C27_Witness ==
    /\ Called
    /\ call.count > 0
    /\ call.before.complexity_per_product # ComplexityPerProduct
    /\ call.before.complexity_per_product > 0
    /\ scraper.request_count = call.before.request_count + 1

\* The last call's request was answered with entries and made request_count a
\* multiple of 5.
FifthRequest ==
    /\ call.kind = "posts"
    /\ call.sent > 0
    /\ scraper.request_count = call.before.request_count + 1
    /\ scraper.request_count % OptimizeEvery = 0

\* C28: a call changes complexity_per_product only when its request was
\* answered with entries and made request_count a multiple of 5, and then to
\* the observed total_complexity_used per request and per max_batch_size; it
\* changes max_batch_size only at such a request or on a cost-limit error.
\* Every other call leaves both as they were.
C28_RetunedOnlyThen ==
    Called =>
        /\ scraper.complexity_per_product # call.before.complexity_per_product =>
              /\ FifthRequest
              /\ scraper.complexity_per_product
                    = scraper.total_complexity_used
                        \div (scraper.request_count
                                * Max(1, call.before.max_batch_size))
        /\ scraper.max_batch_size # call.before.max_batch_size =>
              FifthRequest \/ CostLimited

\* A fifth request changed the estimate and the batch size.
C28_Witness ==
    /\ Called
    /\ FifthRequest
    /\ scraper.complexity_per_product # call.before.complexity_per_product
    /\ scraper.max_batch_size # call.before.max_batch_size
    /\ call.count = 1


\* A step of the crawl: some controller's locals change.
CrawlStep == \E p \in Controllers : run'[p] # run[p]

\* C22: a step of the crawl leaves every stored record as it is, whatever
\* status enrichment and analysis gave it, and a record it adds has status 0
\* and the launch date of the date being crawled.
C22_CrawlWritesStatusZeroOnce ==
    [][CrawlStep =>
          /\ products \subseteq products'
          /\ \A row \in products' \ products :
                /\ row.status = 0
                /\ \E p \in Controllers :
                      /\ run'[p] # run[p]
                      /\ row.launch_date = run[p].date_str]_vars

\* A run that began on empty tables has stored two records; the first has been
\* enriched and analysed meanwhile, the second is as inserted.
C22_Witness ==
    \E p \in Controllers :
        /\ run[p].from_empty
        /\ run[p].pc \in MidPage
        /\ Len(run[p].product_ids) = 2
        /\ \E old \in products, new \in products :
              /\ old.id = run[p].product_ids[1]
              /\ old.status = 2
              /\ new.id = run[p].product_ids[2]
              /\ new.status = 0
              /\ new.launch_date = run[p].date_str

\* C23: in every step -- of the crawl, of enrichment, of analysis, in any
\* order -- a company whose is_signal is true keeps its row with is_signal
\* true.
C23_SignalFlagSticky ==
    [][\A c \in companies :
          c.is_signal => \E n \in companies' : n.id = c.id /\ n.is_signal]_vars

\* The analysis of a record came out "no_signal" while the record's company
\* was flagged, and the company is still flagged.
C23_Witness ==
    /\ call.op = "analyze_signals"
    /\ call.verdict = "no_signal"
    /\ \E product \in products :
          /\ product.id = call.product
          /\ \E c \in call.before : c.id = product.company_id /\ c.is_signal
          /\ \E c \in companies : c.id = product.company_id /\ c.is_signal


\* C24: any two consecutive requests of one object go out at least
\* min_request_interval (1 second) apart, also when the post of the earlier
\* one raised a transport exception.
C24_AsStated ==
    Called /\ call.previous.kind # "none" =>
        call.sent_at - call.previous.sent_at >= Interval


\* C31: in every state, also after runs in which a fetch failed (transport
\* error, HTTP error, GraphQL or cost-limit error) at any page, a checkpoint
\* with has_next_page = false means every catalog entry of the date was
\* processed by some run: it has a row of its name or was dropped for its
\* flagged company.
C31_AsStated ==
    \A d \in Dates :
        Exhausted(d) =>
            \A i \in 1..Len(upstream[d]) :
                \/ \E row \in products : row.product_name = upstream[d][i]
                \/ \E c \in companies : c.company_name = upstream[d][i] /\ c.is_signal


CalledWithIds ==
    /\ call.op \in {"enrich_social_links", "analyze_signals"}
    /\ "product_ids" \in DOMAIN call

C33_AsStated ==
    /\ scraper.complexity_per_product >= 1
    /\ Called /\ call.kind = "posts" /\ call.sent > 0 => call.count = call.sent


\* C38: while two invocations for one date overlap, with their checkpoint
\* reads and writes in any order, no step takes the date's checkpoint from
\* has_next_page false back to true, and no step sets its cursor to a page
\* boundary behind the one an earlier update had persisted.
C38_AsStated ==
    [][\A d \in Dates :
          progress[d].created =>
              /\ ~progress[d].has_next_page => ~progress'[d].has_next_page
              /\ progress'[d].last_cursor # NoCursor =>
                    progress'[d].last_cursor >= progress[d].last_cursor]_vars

\* ------------------------------------------------ C37: the two variants
\* What an invocation over the uncrawled date d has to leave, told from the
\* rows of the other dates and the signal flags, neither of which it changes:
\* an entry whose name has a row keeps that row and lists its id; an entry of
\* a flagged company is passed over; every other name gets one row, numbered
\* in the order of first appearance, and lists its id at every appearance.
RowsBefore(d) == {r \in products : r.launch_date # d}

StoredBefore(d, n) == \E r \in RowsBefore(d) : r.product_name = n

NewNames(d) ==
    {n \in Range(upstream[d]) : ~StoredBefore(d, n) /\ ~Flagged(n)}

FirstIndex(d, n) ==
    CHOOSE i \in 1..Len(upstream[d]) :
        upstream[d][i] = n /\ \A j \in 1..(i - 1) : upstream[d][j] # n

NewId(d, n) ==
    Cardinality(RowsBefore(d))
        + Cardinality({m \in NewNames(d) : FirstIndex(d, m) <= FirstIndex(d, n)})

ExpectedRecords(d) ==
    RowsBefore(d) \cup
        {[id |-> NewId(d, n),
          company_id |-> (CHOOSE c \in CompaniesNamed(n) : TRUE).id,
          product_name |-> n, launch_date |-> d, status |-> 0] : n \in NewNames(d)}

ExpectedIdOf(d, n) ==
    IF StoredBefore(d, n)
    THEN (CHOOSE r \in RowsBefore(d) :
              /\ r.product_name = n
              /\ \A q \in RowsBefore(d) : q.product_name = n => r.id <= q.id).id
    ELSE NewId(d, n)

\* The entries that are not passed over, in catalog order.
KeptEntries(d) ==
    SelectSeq(upstream[d], LAMBDA n : StoredBefore(d, n) \/ ~Flagged(n))

\* ids lists, entry by entry, the id expected for each kept entry.
ListsExpectedIds(d, ids) ==
    \E kept \in {KeptEntries(d)} :
        /\ Len(ids) = Len(kept)
        /\ \A n \in Range(kept) :
               \E id \in {ExpectedIdOf(d, n)} :
                   \A i \in 1..Len(kept) : kept[i] = n => ids[i] = id

\* The invocation of controller p over d1 has reached its return statement.
ControllerDone(p) == run[p].pc = "done" /\ run[p].date_str = "d1"

StreamlinedDone(p) == run[p].pc = "streamlined_done" /\ run[p].date_str = "d1"

\* The streamlined invocation of p is in or past its for loop over the list
\* that scrape_all_products_for_date returned.
StreamlinedDeciding(p) ==
    /\ run[p].streamlined
    /\ run[p].date_str = "d1"
    /\ run[p].pc \in {"find", "company", "signal", "insert", "streamlined_done"}

\* The entries the for loops of the invocation have taken up so far.
Decided(p) ==
    IF run[p].streamlined THEN Len(run[p].all_products) ELSE run[p].total_fetched

SameOutcome(p) ==
    /\ ListsExpectedIds("d1", run[p].product_ids)
    /\ products = ExpectedRecords("d1")

\* C37 as the specification states it: from the same rows, with no checkpoint
\* for the date, no limit and no failing fetch, the streamlined variant
\* creates the rows and returns the id list that the page-stepping controller
\* creates and returns, and writes no checkpoint.
\* The controller decides every entry of the catalog, page by page; so the
\* list the streamlined variant decides has to be the catalog.
C37_AsStated ==
    \A p \in Controllers :
        /\ ControllerDone(p) => SameOutcome(p) /\ Decided(p) = Len(upstream["d1"])
        /\ StreamlinedDeciding(p) => run[p].all_products = upstream["d1"]
        /\ StreamlinedDone(p) => SameOutcome(p) /\ progress["d1"] = NoRow

\* C37, amended: the same for a date of at most MaxPages pages; the
\* page-stepping controller reads every page of a longer date, too.
C37_SameOutcomeUpToMaxPages ==
    \A p \in Controllers :
        /\ ControllerDone(p) => SameOutcome(p) /\ Decided(p) = Len(upstream["d1"])
        /\ StreamlinedDeciding(p) /\ Pages("d1") <= MaxPages
                => run[p].all_products = upstream["d1"]
        /\ StreamlinedDone(p) /\ Pages("d1") <= MaxPages
                => SameOutcome(p) /\ progress["d1"] = NoRow

\* The streamlined variant is at its return from a date of several pages
\* where it added rows and met one of the new names a second time.
C37_Witness ==
    \E p \in Controllers :
        /\ StreamlinedDone(p)
        /\ run[p].nfetch > 1
        /\ Cardinality(NewNames("d1")) > 1
        /\ Len(run[p].product_ids) > Cardinality(NewNames("d1"))

\* ------------------------------------------------------ C34: termination
Running(p) == run[p].pc # "idle"

\* C34: every invocation of either variant returns (the catalog of a date is
\* finite); the streamlined variant sends at most MaxPages requests, however
\* many pages the date has, while an invocation of the page-stepping
\* controller that starts without a checkpoint and that no limit and no
\* failed fetch stops sends one request for every page of the date.
C34_Terminates ==
    /\ \A p \in Sequential : Running(p) ~> ~Running(p)
    /\ [](\A p \in Sequential :
             /\ run[p].streamlined => run[p].nfetch <= MaxPages
             /\ run[p].pc = "done" /\ run[p].nfetch > 0 /\ run[p].limit = NoLimit
                    /\ run[p].from_empty /\ ~failed["d1"]
                    => run[p].nfetch >= Pages("d1"))

\* The streamlined variant has left its loop after MaxPages requests although
\* the last page reported a successor.
C34_Witness ==
    \E p \in Sequential :
        /\ run[p].streamlined
        /\ run[p].pc = "find"
        /\ run[p].nfetch = MaxPages
        /\ run[p].new_has_next_page

\* ------------------------------------------------- C35: periodic progress
\* The invocation of p returns in this step with the date not exhausted.
ReturnsUnexhausted(p) ==
    /\ run[p].pc = "done"
    /\ run'[p].pc = "idle"
    /\ ~last'.exhausted

\* C35: invoked again and again for one date with one positive limit, over
\* an unchanging catalog and with no failing fetch, the controller brings
\* the date's checkpoint to has_next_page = false; and every invocation that
\* returns with the date not exhausted leaves the stored cursor at least one
\* full page beyond the cursor the invocation before it left.
C35_PeriodicProgress ==
    /\ <>Exhausted("d1")
    /\ [][\A p \in Sequential :
             ReturnsUnexhausted(p)
                 => last'.cursor >= last.cursor + Min(last'.limit, ServerPageCap)]_vars

\* The second invocation with the task's limit has returned, and the date is not
\* exhausted yet.
C35_Witness ==
    /\ last.date = "d1"
    /\ last.limit = AutoScrapeLimit
    /\ ~last.exhausted
    /\ AllIdle
    /\ last.cursor >= 2 * AutoScrapeLimit


====
